---- MODULE Spec2Model ----
(***************************************************************************)
(* A model of the classroom lighting simulator (abubakr3800/after_end):    *)
(* the range matching of updateParameterValidation and comparisonCards,    *)
(* the environment score of updateRecommendationCards and the Kelvin       *)
(* stage of processImageWithLighting.                                      *)
(*                                                                         *)
(* JavaScript numbers are modelled as records [kind, n]: kind "num" with   *)
(* the integer n, kind "nan" for NaN and kind "inf" for +Infinity, so that *)
(* comparisons and arithmetic on non-finite values behave as in the        *)
(* language (every comparison with NaN is false, Infinity < Infinity is    *)
(* false).  A range record carries integers min <= max and a rating label; *)
(* its reason, recommendation and range are identified by the record's     *)
(* position in the list, so a result names the record it shows by index    *)
(* (0 for null).                                                           *)
(***************************************************************************)
EXTENDS Integers, Sequences, FiniteSets, TLC

VARIABLES
    paramDataArray,   \* argument of updateParameterValidation: [isArray, recs]
    currentValue,     \* argument of updateParameterValidation / comparisonCards
    statusElement,    \* what updateParameterValidation wrote to the status element
    comparisonCard,   \* the card comparisonCards appended for the parameter
    currentValues,    \* argument of updateRecommendationCards: parameter -> reading
    gradeData,        \* argument of updateRecommendationCards: apiData[selectedGrade]
    recommendationCards, \* what updateRecommendationCards put in the cards container
    cct,              \* the reading of the CCT slider, in Kelvin
    multipliers,      \* the channel multipliers processImageWithLighting chose
    cri,              \* the reading of the CRI slider
    glare,            \* the reading of the glare slider
    flickerSlider,    \* the reading of the flicker slider
    classroomImage,   \* the pixels of the decoded classroom image
    originalImageData, \* the ImageData kept from the image: [ref, data] or null
    brightnessMultiplier, \* the brightness factor of the last rendering
    pixelStages,      \* per pixel, the values the last rendering went through
    canvasData,       \* the pixels painted on the canvas
    canvasClassList,  \* the effect classes of the canvas element
    renderings,       \* how many renderings have been painted, up to MaxRenderings
    flicker,          \* the flicker metric applyVisualEffects derived
    verticalSlider,   \* the reading of the vertical illuminance slider
    luxSlider,        \* the reading of the lux slider
    validationValues, \* the readings updateValidationStatus collected
    parameterData,    \* the record lists updateValidationStatus extracted
    statusElements,   \* parameter -> what its status element shows
    statusBounds,     \* parameter -> the bounds its outside-range status names
    cardReasons,      \* per card, parameter -> the bounds its reason names
    updateTimeout,    \* whether the debounced update of the cards is pending
    cookies,          \* the session cookies: [selectedGrade, selectedEnvironment]
    selectedGrade,    \* the global selectedGrade, "" until it is read
    selectedEnvironment, \* the global selectedEnvironment, "" until it is read
    location,         \* the page the window shows or is navigating to
    listening,        \* whether initializeSimulator has registered the listeners
    loadApiDataAt,    \* where loadApiData stands: the await it is suspended at
    apiData,          \* the global apiData: "null", "partial" or "merged"
    preloader,        \* "shown" or "hidden": the class of the preloader element
    hideTimeout,      \* whether a timer calling hidePreloader is pending
    validationTimeout, \* whether the timer calling updateValidationStatus is pending
    entered,          \* function -> the values of apiData it was entered with
    timers,           \* the pending card-update timers: milliseconds left, oldest first
    sinceInput,       \* milliseconds since the last slider input, up to the delay
    inputs,           \* how many slider inputs there were, up to MaxInputs
    bursts,           \* how many bursts of inputs have begun
    cardRuns,         \* how many times a timer has run updateRecommendationCards
    images,           \* the Image objects initializeCanvas created, oldest first
    canvasSize,       \* the number of pixels of the canvas
    onloads           \* for each onload that ran: its image and what it captured

matchVars == <<paramDataArray, currentValue, statusElement, comparisonCard>>
scoreVars == <<currentValues, gradeData, recommendationCards>>

lightVars == <<cct, multipliers>>
renderVars == <<cri, glare, flickerSlider, classroomImage, originalImageData,
                brightnessMultiplier, pixelStages, canvasData, canvasClassList,
                renderings, flicker>>
evalVars == <<verticalSlider, luxSlider, validationValues, parameterData,
              statusElements, statusBounds, cardReasons, updateTimeout>>

loadVars == <<cookies, selectedGrade, selectedEnvironment, location, listening,
              loadApiDataAt, apiData, preloader, hideTimeout, validationTimeout,
              entered>>
debounceVars == <<timers, sinceInput, inputs, bursts, cardRuns>>
imageVars == <<images, canvasSize, onloads>>
pageVars == <<loadVars, debounceVars, imageVars>>

vars == <<matchVars, scoreVars, lightVars, renderVars, evalVars, pageVars>>

----------------------------------------------------------------------------
(* Bounds of the range-matching model *)

MaxEnd == 2      \* range endpoints are drawn from 0..MaxEnd
MaxLen == 2      \* a parameter has at most MaxLen range records

(* Bound of the scoring model *)

MaxReading == 1  \* slider readings are drawn from 0..MaxReading

(* Bound of the lighting model *)

KelvinMargin == 1000  \* CCT readings reach this far beyond the slider's range

----------------------------------------------------------------------------
(* JavaScript numbers *)

Num(n) == [kind |-> "num", n |-> n]
NaN == [kind |-> "nan", n |-> 0]
Infinity == [kind |-> "inf", n |-> 0]

isFinite(x) == x.kind = "num"

\* x >= b and x <= b for a finite b
JsGe(x, b) == (x.kind = "num" /\ x.n >= b) \/ x.kind = "inf"
JsLe(x, b) == x.kind = "num" /\ x.n <= b

\* x < y for two numbers
JsLt(x, y) ==
    \/ x.kind = "num" /\ y.kind = "num" /\ x.n < y.n
    \/ x.kind = "num" /\ y.kind = "inf"

Abs(n) == IF n < 0 THEN -n ELSE n

\* Math.abs(x - b) for a finite b
AbsDiff(x, b) == IF x.kind = "num" THEN Num(Abs(x.n - b)) ELSE x

\* Math.min(x, y)
JsMin(x, y) ==
    IF x.kind = "nan" \/ y.kind = "nan" THEN NaN
    ELSE IF JsLt(y, x) THEN y ELSE x

----------------------------------------------------------------------------
(* Inputs of range matching *)

\* the three ratings, one of them also with a capital, and an unknown label
Ratings == {"good", "medium", "bad", "Good", "Excellent"}

Ranges == {r \in [min : 0..MaxEnd, max : 0..MaxEnd] : r.min <= r.max}

Records == [range : Ranges, rating : Ratings]

RecordLists == UNION {[1..n -> Records] : n \in 0..MaxLen}

\* a parameter's record list, or something that is no array (undefined)
ParamDataArrays ==
    {[isArray |-> TRUE, recs |-> l] : l \in RecordLists}
        \cup {[isArray |-> FALSE, recs |-> <<>>]}

CurrentValues == {Num(n) : n \in -1..(MaxEnd + 1)} \cup {NaN, Infinity}

----------------------------------------------------------------------------
(* getRatingPriority, New/simulator.js *)

toLowerCase(s) ==
    CASE s = "Good" -> "good"
      [] s = "Excellent" -> "excellent"
      [] OTHER -> s

toUpperCase(s) ==
    CASE s \in {"good", "Good"} -> "GOOD"
      [] s = "medium" -> "MEDIUM"
      [] s = "bad" -> "BAD"
      [] OTHER -> "EXCELLENT"

getRatingPriority(rating) ==
    CASE toLowerCase(rating) = "good" -> 3
      [] toLowerCase(rating) = "medium" -> 2
      [] toLowerCase(rating) = "bad" -> 1
      [] OTHER -> 0

\* the interval open at its upper end
InRangeBelowMax(value, range) ==
    JsGe(value, range.min) /\ JsLt(value, Num(range.max))

\* currentValue >= min && currentValue <= max
InRange(value, range) == JsGe(value, range.min) /\ JsLe(value, range.max)

----------------------------------------------------------------------------
(* updateParameterValidation, New/simulator.js.  The status element is     *)
(* taken to exist in the page; every record of the list has a range, as    *)
(* updateValidationStatus pushes a record only for an entry with a range   *)
(* (line 360).                                                             *)

\* the scan replacing the best match on an equal priority too
BetterOrEqualRating(rating, bestRating) ==
    getRatingPriority(rating) >= getRatingPriority(bestRating)

\* line 418: the scan replaces the best match only on a strictly higher priority
BetterRating(rating, bestRating) ==
    getRatingPriority(rating) > getRatingPriority(bestRating)

\* lines 404-424: the scan for the best containing record
RECURSIVE ScanBest(_, _, _, _)
ScanBest(value, recs, i, best) ==
    IF i > Len(recs) THEN best
    ELSE LET rating == toLowerCase(recs[i].rating)
         IN  IF InRange(value, recs[i].range) /\ BetterRating(rating, best.bestRating)
             THEN ScanBest(value, recs, i + 1, [bestMatch |-> i, bestRating |-> rating])
             ELSE ScanBest(value, recs, i + 1, best)

\* the distance measured to the middle of the range instead
MidpointInsteadOfEndpoint(value, range) ==
    IF value.kind = "num" THEN Num(Abs(2 * value.n - (range.min + range.max)))
    ELSE value

\* lines 431-434: the distance of the value to the nearer end of a range
EndpointDistance(value, range) ==
    JsMin(AbsDiff(value, range.min), AbsDiff(value, range.max))

\* lines 427-441: the scan for the closest range
RECURSIVE ScanClosest(_, _, _, _)
ScanClosest(value, recs, i, acc) ==
    IF i > Len(recs) THEN acc
    ELSE LET minDistance == EndpointDistance(value, recs[i].range)
         IN  IF JsLt(minDistance, acc.closestDistance)
             THEN ScanClosest(value, recs, i + 1,
                              [bestMatch |-> i, closestDistance |-> minDistance])
             ELSE ScanClosest(value, recs, i + 1, acc)

\* lines 403-463: the status written for a non-empty record list
ValidateRecords(value, recs) ==
    LET scanned == ScanBest(value, recs, 1, [bestMatch |-> 0, bestRating |-> "bad"])
        closest == ScanClosest(value, recs, 1,
                               [bestMatch |-> 0, closestDistance |-> Infinity])
        bestMatch == IF scanned.bestMatch = 0 THEN closest.bestMatch
                     ELSE scanned.bestMatch
        bestRating == IF scanned.bestMatch = 0 THEN "bad" ELSE scanned.bestRating
        contained == \E i \in 1..Len(recs) : InRange(value, recs[i].range)
    IN  IF bestMatch = 0
        THEN [form |-> "NO STANDARDS AVAILABLE", rating |-> "", bestMatch |-> 0,
              className |-> bestRating]
        ELSE IF bestRating = "bad" /\ ~contained
        THEN [form |-> "BAD - Outside recommended range (min-max)", rating |-> "BAD",
              bestMatch |-> bestMatch, className |-> bestRating]
        ELSE [form |-> "RATING - reason", rating |-> toUpperCase(bestRating),
              bestMatch |-> bestMatch, className |-> bestRating]

\* the validation without its guard on an empty or absent list
ValidateWithoutGuard(value, arr) == ValidateRecords(value, arr.recs)

\* lines 391-464
updateParameterValidation(value, arr) ==
    IF ~arr.isArray \/ Len(arr.recs) = 0
    THEN [form |-> "No Data Available", rating |-> "", bestMatch |-> 0,
          className |-> "evaluating"]
    ELSE ValidateRecords(value, arr.recs)

----------------------------------------------------------------------------
(* comparisonCards, comparisn.-grid.js: the card of one parameter *)

\* lines 36-44: the last record containing the value
RECURSIVE LastContaining(_, _, _, _)
LastContaining(value, recs, i, bestMatch) ==
    IF i > Len(recs) THEN bestMatch
    ELSE LastContaining(value, recs, i + 1,
                        IF InRange(value, recs[i].range) THEN i ELSE bestMatch)

\* lines 65-66: twice the distance of the value to the middle of a range
\* (doubled to stay in the integers; the order of the distances is that of
\* Math.abs(currentValue - (min + max) / 2))
MidpointDistance2(value, range) ==
    IF value.kind = "num" THEN Num(Abs(2 * value.n - (range.min + range.max)))
    ELSE value

\* lines 60-72
RECURSIVE ClosestRange(_, _, _, _)
ClosestRange(value, recs, i, acc) ==
    IF i > Len(recs) THEN acc
    ELSE LET distance == MidpointDistance2(value, recs[i].range)
         IN  IF JsLt(distance, acc.minDistance)
             THEN ClosestRange(value, recs, i + 1,
                               [closestRange |-> i, minDistance |-> distance])
             ELSE ClosestRange(value, recs, i + 1, acc)

\* lines 9-96
comparisonCards(value, arr) ==
    IF ~arr.isArray
    THEN [form |-> "skipped", rating |-> "", record |-> 0]
    ELSE LET bestMatch == LastContaining(value, arr.recs, 1, 0)
             closest == ClosestRange(value, arr.recs, 1,
                                     [closestRange |-> 0, minDistance |-> Infinity])
         IN  IF bestMatch # 0
             THEN [form |-> "Rating, Reason, Recommendation, Recommended Range",
                   rating |-> toUpperCase(arr.recs[bestMatch].rating),
                   record |-> bestMatch]
             ELSE IF closest.closestRange # 0
             THEN [form |-> "Rating, Note, Closest Recommendation",
                   rating |-> "OUTSIDE RECOMMENDED RANGE",
                   record |-> closest.closestRange]
             ELSE [form |-> "Rating, Note", rating |-> "UNKNOWN", record |-> 0]

----------------------------------------------------------------------------
(* The range-matching specification: a parameter's record list and a       *)
(* reading are given, and each of the two functions is applied to them.    *)

Unset == [form |-> "unset", rating |-> "", bestMatch |-> 0, className |-> ""]

NoCard == [form |-> "unset", rating |-> "", record |-> 0]

NoCards == [kind |-> "unset", cards |-> <<>>]

NoScore ==
    /\ currentValues = <<>>
    /\ gradeData = [defined |-> FALSE, hasLevels |-> FALSE, levels |-> <<>>]
    /\ recommendationCards = NoCards

NoLight ==
    /\ cct = 0
    /\ multipliers = <<>>

Null == [ref |-> "null", data |-> <<>>]

NoRender ==
    /\ cri = 0
    /\ glare = 0
    /\ flickerSlider = 0
    /\ classroomImage = <<>>
    /\ originalImageData = Null
    /\ brightnessMultiplier = <<>>
    /\ pixelStages = <<>>
    /\ canvasData = <<>>
    /\ canvasClassList = {}
    /\ renderings = 0
    /\ flicker = <<>>

NoEvaluate ==
    /\ verticalSlider = 0
    /\ luxSlider = 0
    /\ validationValues = <<>>
    /\ parameterData = <<>>
    /\ statusElements = <<>>
    /\ statusBounds = <<>>
    /\ cardReasons = <<>>
    /\ updateTimeout = FALSE

NoLoad ==
    /\ cookies = [selectedGrade |-> "", selectedEnvironment |-> ""]
    /\ selectedGrade = ""
    /\ selectedEnvironment = ""
    /\ location = ""
    /\ listening = FALSE
    /\ loadApiDataAt = ""
    /\ apiData = "null"
    /\ preloader = ""
    /\ hideTimeout = FALSE
    /\ validationTimeout = FALSE
    /\ entered = <<>>

NoDebounce ==
    /\ timers = <<>>
    /\ sinceInput = 0
    /\ inputs = 0
    /\ bursts = 0
    /\ cardRuns = 0

NoImages ==
    /\ images = <<>>
    /\ canvasSize = 0
    /\ onloads = <<>>

NoPage == NoLoad /\ NoDebounce /\ NoImages

InitMatch ==
    /\ paramDataArray \in ParamDataArrays
    /\ currentValue \in CurrentValues
    /\ statusElement = Unset
    /\ comparisonCard = NoCard
    /\ NoScore
    /\ NoLight
    /\ NoRender
    /\ NoEvaluate
    /\ NoPage

UpdateParameterValidation ==
    /\ statusElement = Unset
    /\ statusElement' = updateParameterValidation(currentValue, paramDataArray)
    /\ UNCHANGED <<paramDataArray, currentValue, comparisonCard, scoreVars, lightVars, renderVars, evalVars,
                   pageVars>>

ComparisonCards ==
    /\ comparisonCard = NoCard
    /\ comparisonCard' = comparisonCards(currentValue, paramDataArray)
    /\ UNCHANGED <<paramDataArray, currentValue, statusElement, scoreVars, lightVars, renderVars, evalVars,
                   pageVars>>

NextMatch == UpdateParameterValidation \/ ComparisonCards

SpecMatch == InitMatch /\ [][NextMatch]_vars

----------------------------------------------------------------------------
(* Range matching: properties *)

Validated == statusElement # Unset
Carded == comparisonCard # NoCard

Recs == paramDataArray.recs

\* the records whose closed interval contains the (finite) reading
Containing ==
    {i \in 1..Len(Recs) :
        /\ isFinite(currentValue)
        /\ Recs[i].range.min <= currentValue.n
        /\ currentValue.n <= Recs[i].range.max}

\* the containing records of the highest rating priority
TopContaining ==
    {i \in Containing :
        \A j \in Containing :
            getRatingPriority(Recs[i].rating) >= getRatingPriority(Recs[j].rating)}

First(S) == CHOOSE i \in S : \A j \in S : i <= j
Last(S) == CHOOSE i \in S : \A j \in S : i >= j

\* the distance of the reading to the nearer end of record i, and twice its
\* distance to the middle of record i
EndDist(i) ==
    LET a == Abs(currentValue.n - Recs[i].range.min)
        b == Abs(currentValue.n - Recs[i].range.max)
    IN  IF a < b THEN a ELSE b
MidDist2(i) == Abs(2 * currentValue.n - (Recs[i].range.min + Recs[i].range.max))

NearestEndpoint == First({i \in 1..Len(Recs) : \A j \in 1..Len(Recs) : EndDist(i) <= EndDist(j)})
NearestMidpoint == First({i \in 1..Len(Recs) : \A j \in 1..Len(Recs) : MidDist2(i) <= MidDist2(j)})

WithinForm == statusElement.form = "RATING - reason"
OutsideForm == statusElement.form = "BAD - Outside recommended range (min-max)"

\* C1: whenever some record contains the finite reading, the status is the
\* within-range one and shows a record that contains the reading and whose
\* rating has the highest priority among the containing records, with that
\* record's rating.
C1_ContainingBestRated ==
    (Validated /\ Containing # {}) =>
        /\ WithinForm
        /\ statusElement.bestMatch \in TopContaining
        /\ statusElement.className = toLowerCase(Recs[statusElement.bestMatch].rating)

\* C2: when several containing records share the highest priority, the
\* record shown is the last of them in catalog order.
C2_TieSelectsLast ==
    (Validated /\ Cardinality(TopContaining) >= 2) =>
        statusElement.bestMatch = Last(TopContaining)

\* C2 as amended: when several containing records share the highest
\* priority, the record shown is the first of them in catalog order if that
\* priority is good or medium; if it is bad or an unknown label the scan
\* selects none of them and the status shows the rating bad with the record
\* the fallback finds.
C2_TieSelectsFirst ==
    (Validated /\ Cardinality(TopContaining) >= 2) =>
        /\ WithinForm
        /\ IF getRatingPriority(Recs[First(TopContaining)].rating) >= 2
           THEN /\ statusElement.bestMatch = First(TopContaining)
                /\ statusElement.className =
                       toLowerCase(Recs[First(TopContaining)].rating)
           ELSE /\ statusElement.bestMatch = NearestEndpoint
                /\ statusElement.className = "bad"

C2_Witness ==
    /\ Validated
    /\ Cardinality(TopContaining) >= 2
    /\ getRatingPriority(Recs[First(TopContaining)].rating) >= 2
    /\ statusElement.bestMatch = First(TopContaining)
    /\ statusElement.bestMatch # Last(TopContaining)

\* C3: a finite reading that no record of a non-empty list contains gets
\* the outside-range status, rated bad, showing the record whose range
\* midpoint is closest to the reading, the first such record on a tie.
C3_FallbackNearestMidpoint ==
    (Validated /\ isFinite(currentValue) /\ Len(Recs) > 0 /\ Containing = {}) =>
        /\ OutsideForm
        /\ statusElement.className = "bad"
        /\ statusElement.bestMatch = NearestMidpoint

\* C3 as amended: updateParameterValidation shows, rated bad, the record
\* one of whose two ends is closest to the reading (the first such record
\* on a tie); comparisonCards shows the record whose midpoint is closest
\* (the first on a tie) under the rating OUTSIDE RECOMMENDED RANGE.
C3_FallbackNearestEndpoint ==
    /\ (Validated /\ isFinite(currentValue) /\ Len(Recs) > 0 /\ Containing = {}) =>
          /\ OutsideForm
          /\ statusElement.className = "bad"
          /\ statusElement.bestMatch = NearestEndpoint
    /\ (Carded /\ isFinite(currentValue) /\ Len(Recs) > 0 /\ Containing = {}) =>
          /\ comparisonCard.rating = "OUTSIDE RECOMMENDED RANGE"
          /\ comparisonCard.record = NearestMidpoint

C3_Witness ==
    /\ Validated /\ Carded
    /\ isFinite(currentValue) /\ Len(Recs) > 1 /\ Containing = {}
    /\ NearestEndpoint # NearestMidpoint
    /\ statusElement.bestMatch = NearestEndpoint
    /\ comparisonCard.record = NearestMidpoint

\* C4: with an empty or absent record list the result is the no-data one
\* for every reading: not the within-range form, no rating among good,
\* medium and bad, and no record (so no reason or recommendation).
C4_NoDataResult ==
    /\ (Validated /\ (~paramDataArray.isArray \/ Len(Recs) = 0)) =>
          /\ statusElement.form = "No Data Available"
          /\ statusElement.className \notin {"good", "medium", "bad"}
          /\ statusElement.rating = ""
          /\ statusElement.bestMatch = 0
    /\ (Carded /\ (~paramDataArray.isArray \/ Len(Recs) = 0)) =>
          /\ comparisonCard.form \in {"skipped", "Rating, Note"}
          /\ comparisonCard.rating \in {"", "UNKNOWN"}
          /\ comparisonCard.record = 0

C4_Witness ==
    /\ Validated /\ Carded
    /\ paramDataArray.isArray /\ Len(Recs) = 0
    /\ isFinite(currentValue)
    /\ statusElement.form = "No Data Available"
    /\ comparisonCard.rating = "UNKNOWN"

\* C5: a non-finite reading against a non-empty record list is rated
\* unknown: it is never reported as good, medium or bad, and no record is
\* selected.
C5_NonFiniteIsUnknown ==
    (Validated /\ ~isFinite(currentValue) /\ Len(Recs) > 0) =>
        /\ statusElement.className \notin {"good", "medium", "bad"}
        /\ statusElement.bestMatch = 0

----------------------------------------------------------------------------
(* updateRecommendationCards, New/simulator.js lines 1006-1071 (the same    *)
(* code is classroom-simulator.js lines 710-770, without the image choice): *)
(* the card of the selected environment in one recommendation level.       *)

\* the readings compareValues and the debounced input handler collect
SliderParams == {"CCT", "CRI", "Flicker", "UGR", "Vertical_Illuminance", "Lux"}

\* the keys an environment entry may carry: the slider parameters, a
\* parameter no reading is collected for, and a key that is no parameter
EnvKeys == SliderParams \cup {"Uniformity", "images"}

\* the range the reference data gives a parameter
ReferenceRange(param) ==
    CASE param \in {"CCT", "UGR"} -> [min |-> 1, max |-> 1]
      [] param \in {"CRI", "Vertical_Illuminance"} -> [min |-> 0, max |-> 0]
      [] OTHER -> [min |-> 0, max |-> 1]

\* an entry of a parameter: with its range, or without one
WithRange(param) == [hasRange |-> TRUE, range |-> ReferenceRange(param)]
WithoutRange == [hasRange |-> FALSE, range |-> [min |-> 0, max |-> 0]]

EnvDatas ==
    UNION {
        {e \in [keys -> {WithoutRange} \cup {WithRange(p) : p \in keys}] :
            \A p \in keys :
                /\ e[p].hasRange => e[p] = WithRange(p)
                /\ (p = "images") => ~e[p].hasRange
                /\ (p = "Uniformity") => e[p].hasRange}
        : keys \in SUBSET EnvKeys}

\* a JavaScript quotient n / d of two non-negative integers, times 100:
\* 0 / 0 is NaN (den = 0, num = 0), n / 0 is Infinity (den = 0, num > 0)
Ratio(n, d) == [num |-> n, den |-> d]
RatioGe(r, k) == r.den > 0 /\ r.num >= k * r.den

\* the range test with an exclusive lower end
InRangeAboveMin(value, range) == value > range.min /\ value <= range.max

\* line 1023: currentValue >= min && currentValue <= max
InRecommendedRange(value, range) == value >= range.min /\ value <= range.max

\* lines 1011-1047: the loop over the parameters of the environment
RECURSIVE ScoreLoop(_, _, _, _)
ScoreLoop(values, env, todo, acc) ==
    IF todo = {} THEN acc
    ELSE LET param == CHOOSE p \in todo : TRUE
             rest == todo \ {param}
         IN  IF param \in {"range", "images"} THEN ScoreLoop(values, env, rest, acc)
             ELSE IF param \in DOMAIN values /\ env[param].hasRange
             THEN IF InRecommendedRange(values[param], env[param].range)
                  THEN ScoreLoop(values, env, rest,
                           [totalScore |-> acc.totalScore + 1,
                            totalParams |-> acc.totalParams + 1,
                            recommendations |->
                                acc.recommendations @@ (param :> "Recommended")])
                  ELSE ScoreLoop(values, env, rest,
                           [totalScore |-> acc.totalScore,
                            totalParams |-> acc.totalParams + 1,
                            recommendations |->
                                acc.recommendations @@ (param :> "Not Recommended")])
             ELSE ScoreLoop(values, env, rest, acc)

\* the percentage without its guard on totalParams, and with the quotient
\* inverted
PercentageUnguarded(totalScore, totalParams) == Ratio(100 * totalScore, totalParams)
PercentageInverted(totalScore, totalParams) ==
    IF totalParams > 0 THEN Ratio(100 * totalParams, totalScore) ELSE Ratio(0, 1)

\* line 1055
recommendationPercentage(totalScore, totalParams) ==
    IF totalParams > 0 THEN Ratio(100 * totalScore, totalParams) ELSE Ratio(0, 1)

\* the banding with the boundaries in the lower band
StatusAboveBoundary(percentage) ==
    IF percentage.den > 0 /\ percentage.num > 80 * percentage.den
    THEN "Highly Recommended"
    ELSE IF percentage.den > 0 /\ percentage.num > 60 * percentage.den
    THEN "Recommended"
    ELSE "Not Recommended"

\* lines 1057-1071
overallStatus(percentage) ==
    IF RatioGe(percentage, 80) THEN "Highly Recommended"
    ELSE IF RatioGe(percentage, 60) THEN "Recommended"
    ELSE "Not Recommended"

\* lines 1006-1071
EnvironmentCard(values, env) ==
    LET totals == ScoreLoop(values, env, DOMAIN env,
                            [totalScore |-> 0, totalParams |-> 0,
                             recommendations |-> <<>>])
        percentage == recommendationPercentage(totals.totalScore, totals.totalParams)
    IN  [totalScore |-> totals.totalScore,
         totalParams |-> totals.totalParams,
         recommendations |-> totals.recommendations,
         currentImageState |-> IF totals.totalParams = totals.totalScore THEN 0 ELSE 1,
         percentage |-> percentage,
         overallStatus |-> overallStatus(percentage)]

----------------------------------------------------------------------------
(* updateRecommendationCards, New/simulator.js lines 956-1154: the whole   *)
(* handler.  gradeData is apiData[selectedGrade]: undefined when the grade *)
(* is not in the data; hasLevels says that lighting_data carries           *)
(* recommendation_levels; each level in iteration order either has an      *)
(* entry for the selected environment or has none.  The cards container   *)
(* and the canvas are taken to exist in the page, and an entry of the      *)
(* selected environment to carry its emotion images.                       *)

LevelNames == <<"highly_recommended", "recommended", "not_recommended">>

\* lines 989-1114: one card for every level that has the selected environment
RECURSIVE LevelCards(_, _, _)
LevelCards(values, levels, i) ==
    IF i > Len(levels) THEN <<>>
    ELSE IF levels[i].hasEnv
    THEN <<EnvironmentCard(values, levels[i].envData)>> \o LevelCards(values, levels, i + 1)
    ELSE LevelCards(values, levels, i + 1)

\* lines 553-563, called from line 1052 for every card: initializeCanvas
\* reads the emotion images of the selected environment under the level
\* highly_recommended, and throws a TypeError when that entry is absent
InitializeCanvasThrows(levels) ==
    /\ \E i \in 1..Len(levels) : levels[i].hasEnv
    /\ ~\E i \in 1..Len(levels) :
           levels[i].level = "highly_recommended" /\ levels[i].hasEnv

\* lines 956-1154: a TypeError thrown inside the try block (gradeData
\* undefined at line 967, initializeCanvas at line 1052) ends in the catch
\* block of lines 1138-1153
updateRecommendationCards(values, grade) ==
    IF ~grade.defined
    THEN [kind |-> "Error Loading Recommendations", cards |-> <<>>]
    ELSE IF ~grade.hasLevels
    THEN [kind |-> "No Age-Specific Recommendations Available", cards |-> <<>>]
    ELSE IF InitializeCanvasThrows(grade.levels)
    THEN [kind |-> "Error Loading Recommendations", cards |-> <<>>]
    ELSE LET cards == LevelCards(values, grade.levels, 1)
         IN  IF cards = <<>>
             THEN [kind |-> "No Age-Specific Recommendations Available", cards |-> <<>>]
             ELSE [kind |-> "cards", cards |-> cards]

----------------------------------------------------------------------------
(* The scoring specification.  The inputs are of two families: every       *)
(* environment entry and every combination of readings under a single      *)
(* level, and every shape of the grade's data (absent, without levels,     *)
(* levels with and without the selected environment) with a few entries.   *)

NoMatch ==
    /\ paramDataArray = [isArray |-> FALSE, recs |-> <<>>]
    /\ currentValue = NaN
    /\ statusElement = Unset
    /\ comparisonCard = NoCard

Level(name, hasEnv, env) == [level |-> name, hasEnv |-> hasEnv, envData |-> env]

Grade(levels) == [defined |-> TRUE, hasLevels |-> TRUE, levels |-> levels]

\* the entry with every slider parameter, and the entry with none
FullEnv == [p \in SliderParams |-> WithRange(p)]
ShapeEnvs == {FullEnv, <<>>}

LevelShapes(n) ==
    {l \in [1..n -> [level : {LevelNames[i] : i \in 1..n}, hasEnv : BOOLEAN,
                     envData : ShapeEnvs]] :
        \A i \in 1..n : l[i].level = LevelNames[i] /\ (~l[i].hasEnv => l[i].envData = <<>>)}

GradeShapes ==
    {[defined |-> FALSE, hasLevels |-> FALSE, levels |-> <<>>],
     [defined |-> TRUE, hasLevels |-> FALSE, levels |-> <<>>]}
        \cup {Grade(l) : l \in UNION {LevelShapes(n) : n \in 0..Len(LevelNames)}}

InitScore ==
    /\ \/ /\ currentValues \in [SliderParams -> 0..MaxReading]
          /\ gradeData \in {Grade(<<Level(LevelNames[1], TRUE, e)>>) : e \in EnvDatas}
       \/ /\ currentValues \in {[p \in SliderParams |-> v] : v \in 0..MaxReading}
          /\ gradeData \in GradeShapes
    /\ recommendationCards = NoCards
    /\ NoMatch
    /\ NoLight
    /\ NoRender
    /\ NoEvaluate
    /\ NoPage

UpdateRecommendationCards ==
    /\ recommendationCards = NoCards
    /\ recommendationCards' = updateRecommendationCards(currentValues, gradeData)
    /\ UNCHANGED <<currentValues, gradeData, matchVars, pageVars, lightVars, renderVars, evalVars>>

NextScore == UpdateRecommendationCards

SpecScore == InitScore /\ [][NextScore]_vars

----------------------------------------------------------------------------
(* Scoring: properties *)

Scored == recommendationCards # NoCards

\* the entries of the selected environment, in level order, and their cards
ShownEnvs ==
    LET shown == SelectSeq(gradeData.levels, LAMBDA l : l.hasEnv)
    IN  [i \in 1..Len(shown) |-> shown[i].envData]
Cards == recommendationCards.cards

\* each entry of the selected environment got its card
CardPerEnv ==
    (Scored /\ recommendationCards.kind = "cards") => Len(Cards) = Len(ShownEnvs)

\* the parameters that have a reading and, in the environment, a range
Evaluated(env) ==
    {p \in DOMAIN currentValues \cap DOMAIN env : env[p].hasRange}

\* those of them whose reading lies in the closed range
Matching(env) ==
    {p \in Evaluated(env) :
        /\ env[p].range.min <= currentValues[p]
        /\ currentValues[p] <= env[p].range.max}

\* C6: the score counts exactly the parameters present in both the readings
\* and the environment (with a range): each adds 1 to totalParams and 1 to
\* the matched total iff its reading lies in [min,max]; a parameter present
\* in only one of the two changes neither total and gets no entry.
C6_ScoreCountsEvaluated ==
    /\ CardPerEnv
    /\ \A i \in 1..Len(Cards) :
          /\ Cards[i].totalParams = Cardinality(Evaluated(ShownEnvs[i]))
          /\ Cards[i].totalScore = Cardinality(Matching(ShownEnvs[i]))
          /\ DOMAIN Cards[i].recommendations = Evaluated(ShownEnvs[i])
          /\ \A p \in Evaluated(ShownEnvs[i]) :
                Cards[i].recommendations[p] =
                    IF p \in Matching(ShownEnvs[i]) THEN "Recommended"
                    ELSE "Not Recommended"

C6_Witness ==
    /\ Len(Cards) = 1
    /\ LET env == ShownEnvs[1]
       IN  /\ "Uniformity" \in DOMAIN env
           /\ \E p \in SliderParams : p \notin DOMAIN env
           /\ \E p \in SliderParams : p \in DOMAIN env /\ ~env[p].hasRange
           /\ \E p \in Matching(env) : currentValues[p] = env[p].range.min
           /\ Matching(env) # Evaluated(env)
           /\ Cards[1].totalParams = Cardinality(Evaluated(env))
           /\ Cards[1].totalScore = Cardinality(Matching(env))

\* C7: when no parameter is evaluated the percentage is exactly 0, not NaN
\* and not the result of a division by zero.
C7_ZeroParamsZeroPercent ==
    \A i \in 1..Len(Cards) :
        (Cards[i].totalParams = 0) =>
            /\ Cards[i].percentage.den # 0
            /\ Cards[i].percentage.num = 0

C7_Witness ==
    /\ Len(Cards) = 1
    /\ DOMAIN ShownEnvs[1] # {}
    /\ Cards[1].totalParams = 0
    /\ Cards[1].percentage = Ratio(0, 1)

\* C8: 0 <= totalMatched <= totalParams and 0 <= percentage <= 100, and the
\* percentage is 100 exactly when some parameter is evaluated and every
\* evaluated parameter matches.
C8_ScoreBounds ==
    /\ CardPerEnv
    /\ \A i \in 1..Len(Cards) :
          LET pct == Cards[i].percentage
          IN  /\ 0 <= Cards[i].totalScore
              /\ Cards[i].totalScore <= Cards[i].totalParams
              /\ pct.den > 0
              /\ 0 <= pct.num
              /\ pct.num <= 100 * pct.den
              /\ (pct.num = 100 * pct.den) <=>
                    /\ Evaluated(ShownEnvs[i]) # {}
                    /\ Matching(ShownEnvs[i]) = Evaluated(ShownEnvs[i])

C8_Witness ==
    /\ Len(Cards) = 1
    /\ Cardinality(Evaluated(ShownEnvs[1])) >= 2
    /\ Matching(ShownEnvs[1]) = Evaluated(ShownEnvs[1])
    /\ Cards[1].percentage.num = 100 * Cards[1].percentage.den

\* C9: the overall status is Highly Recommended iff percentage >= 80,
\* Recommended iff 60 <= percentage < 80 and Not Recommended iff
\* percentage < 60.
C9_StatusBands ==
    \A i \in 1..Len(Cards) :
        LET pct == Cards[i].percentage
            status == Cards[i].overallStatus
        IN  /\ status \in {"Highly Recommended", "Recommended", "Not Recommended"}
            /\ (status = "Highly Recommended") <=> (pct.num >= 80 * pct.den)
            /\ (status = "Recommended") <=>
                  (pct.num >= 60 * pct.den /\ pct.num < 80 * pct.den)
            /\ (status = "Not Recommended") <=> (pct.num < 60 * pct.den)

C9_Witness ==
    /\ Len(Cards) = 1
    /\ Cards[1].percentage.num = 80 * Cards[1].percentage.den
    /\ Cards[1].overallStatus = "Highly Recommended"

----------------------------------------------------------------------------
(* processImageWithLighting, classroom-simulator.js lines 528-570 (the     *)
(* same code is New/simulator.js lines 725-767): the Kelvin stage, which   *)
(* chooses the channel multipliers from the CCT reading alone.  The        *)
(* multipliers are in tenths: 18 stands for 1.8.                           *)

cctSliderMin == 2000
cctSliderMax == 10000

Kelvins == (cctSliderMin - KelvinMargin)..(cctSliderMax + KelvinMargin)

Tenths(r, g, b) == [red |-> r, green |-> g, blue |-> b]

\* the buckets with an exclusive upper end
KelvinBelowBoundary(kelvin) ==
    IF kelvin < 2000 THEN Tenths(18, 8, 4)
    ELSE IF kelvin < 3000 THEN Tenths(16, 9, 5)
    ELSE IF kelvin < 4000 THEN Tenths(13, 10, 7)
    ELSE IF kelvin < 5000 THEN Tenths(11, 10, 9)
    ELSE IF kelvin < 6000 THEN Tenths(9, 10, 11)
    ELSE IF kelvin < 7000 THEN Tenths(7, 9, 13)
    ELSE Tenths(5, 8, 16)

\* lines 529-570
KelvinMultipliers(kelvin) ==
    IF kelvin <= 2000 THEN Tenths(18, 8, 4)
    ELSE IF kelvin <= 3000 THEN Tenths(16, 9, 5)
    ELSE IF kelvin <= 4000 THEN Tenths(13, 10, 7)
    ELSE IF kelvin <= 5000 THEN Tenths(11, 10, 9)
    ELSE IF kelvin <= 6000 THEN Tenths(9, 10, 11)
    ELSE IF kelvin <= 7000 THEN Tenths(7, 9, 13)
    ELSE Tenths(5, 8, 16)

(* The lighting specification *)

InitLight ==
    /\ cct \in Kelvins
    /\ multipliers = <<>>
    /\ NoMatch
    /\ NoScore
    /\ NoRender
    /\ NoEvaluate
    /\ NoPage

ProcessImageWithLighting ==
    /\ multipliers = <<>>
    /\ multipliers' = KelvinMultipliers(cct)
    /\ UNCHANGED <<cct, matchVars, pageVars, scoreVars, renderVars, evalVars>>

NextLight == ProcessImageWithLighting

SpecLight == InitLight /\ [][NextLight]_vars

(* Lighting: properties *)

Processed == multipliers # <<>>

\* the seven buckets, by their inclusive upper ends, in ascending order
Buckets ==
    << [upTo |-> 2000, m |-> Tenths(18, 8, 4)],
       [upTo |-> 3000, m |-> Tenths(16, 9, 5)],
       [upTo |-> 4000, m |-> Tenths(13, 10, 7)],
       [upTo |-> 5000, m |-> Tenths(11, 10, 9)],
       [upTo |-> 6000, m |-> Tenths(9, 10, 11)],
       [upTo |-> 7000, m |-> Tenths(7, 9, 13)] >>

\* C10: the Kelvin-to-multiplier mapping takes, for every cct, the
\* multipliers of the first of the seven ascending buckets whose inclusive
\* upper end is at least cct, and (0.5,0.8,1.6) above 7000; cct = 5000
\* yields (1.1,1.0,0.9) and cct = 5001 yields (0.9,1.0,1.1).
C10_KelvinBuckets ==
    Processed =>
        /\ \A i \in 1..Len(Buckets) :
              (cct <= Buckets[i].upTo /\ \A j \in 1..(i - 1) : cct > Buckets[j].upTo)
                  => multipliers = Buckets[i].m
        /\ (cct > 7000) => multipliers = Tenths(5, 8, 16)
        /\ (cct = 5000) => multipliers = Tenths(11, 10, 9)
        /\ (cct = 5001) => multipliers = Tenths(9, 10, 11)

C10_Witness ==
    /\ Processed
    /\ cct = 5000
    /\ multipliers = Tenths(11, 10, 9)

----------------------------------------------------------------------------
(* The pixel pipeline: applyVisualEffects and processImageWithLighting,    *)
(* classroom-simulator.js lines 493-623 (New/simulator.js lines 690-820    *)
(* are the same code), with the image load of lines 340-356.               *)
(*                                                                         *)
(* The pipeline computes in IEEE doubles.  A double is modelled by the     *)
(* exact quotient num / den it approximates, with den > 0, and by the      *)
(* flag below, which says that the double lies under the quotient.  The    *)
(* error of a double is far smaller than the distance between two          *)
(* quotients of this pipeline, so it shows only where Math.round meets a   *)
(* quotient that ends in exactly one half: there the double is rounded     *)
(* down when it lies under the quotient and up otherwise.  The three       *)
(* tables below list every product and every blend of the pipeline whose   *)
(* double lies under such a quotient, for channels 0..255 and slider       *)
(* readings 0..100.                                                        *)

MaxPixels == 2      \* an image has at most MaxPixels pixels
MaxRenderings == 2  \* renderings are counted up to MaxRenderings

Double(n, d, below) == [num |-> n, den |-> d, below |-> below]

Exact(n) == Double(n, 1, FALSE)

DoubleLe(x, y) == x.num * y.den <= y.num * x.den

MathMin(a, b) == IF a < b THEN a ELSE b
MathMax(a, b) == IF a > b THEN a ELSE b

\* Math.round of a non-negative double: to the nearest integer, a half up
MathRound(x) ==
    IF 2 * (x.num % x.den) = x.den /\ x.below
    THEN x.num \div x.den
    ELSE (2 * x.num + x.den) \div (2 * x.den)

\* lines 94-97
lerp(a, b, t) ==
    Double(a.num * b.den * t.den + (b.num * a.den - a.num * b.den) * t.num,
           a.den * b.den * t.den, FALSE)

\* rounding without the limits 0 and 255
RoundWithoutClamp(value) == MathRound(value)

\* lines 99-102
clamp(value) == MathMax(0, MathMin(255, MathRound(value)))

\* channel * multiplier (in tenths) with the double under a half: lines 587-589
KelvinProductsBelowHalf == {<<45, 7>>, <<85, 7>>, <<165, 7>>, <<175, 7>>}

\* channel * brightnessMultiplier(glare) with the double under a half:
\* lines 592-594
BrightnessProductsBelowHalf == {<<95, 7>>}

\* the blends <<channel, r + g + b, cri>> with the double under a half:
\* lines 610-617
BlendsBelowHalf ==
    {<<250 + k, 250 + 3 * k, 10>> : k \in 0..5}
        \cup {<<104 + k, 104 + 3 * k, 25>> : k \in 0..12}
        \cup {<<232 + k, 232 + 3 * k, 25>> : k \in 0..12}
        \cup {<<k, 300 + 3 * k, 90>> : k \in 0..6}

Times(c, m, below) == Double(c * m.num, m.den, below)

\* the brightness held at 4.0 above glare 28
BrightnessCappedAt28(glareReading) ==
    IF glareReading <= 19 THEN Double(190 + 3 * glareReading, 190, FALSE)
    ELSE IF glareReading <= 28 THEN Double(117 + 27 * (glareReading - 19), 90, FALSE)
    ELSE Double(4, 1, FALSE)

\* lines 572-581: 1.0 + (glare / 19) * 0.3, or 1.3 + ((glare - 19) / 9) * 2.7
GlareBrightness(glareReading) ==
    IF glareReading <= 19 THEN Double(190 + 3 * glareReading, 190, FALSE)
    ELSE Double(117 + 27 * (glareReading - 19), 90, FALSE)

Pixel(r, g, b, a) == [r |-> r, g |-> g, b |-> b, a |-> a]

\* the first blend done at every cri
FirstPassAlways(c, avg, criReading) ==
    lerp(Exact(c), avg, Double(100 - criReading, 100, FALSE))

\* lines 603-607: lerp(c, avg, 1 - criFactor) when cri < 95
FirstPass(c, avg, criReading) ==
    IF criReading < 95
    THEN lerp(Exact(c), avg, Double(100 - criReading, 100, FALSE))
    ELSE Exact(c)

\* the second blend with the fixed weight 0.5
DesaturateByHalf(c, avg, criReading) == lerp(c, avg, Double(1, 2, FALSE))

\* lines 610-612: lerp(c, avg, 0.5 * (1 - criFactor))
Desaturate(c, avg, criReading) == lerp(c, avg, Double(100 - criReading, 200, FALSE))

\* lines 584-619: one turn of the loop over the pixels
ProcessPixel(p, mult, glareReading, criReading) ==
    LET kelvin(c, m) == clamp(Times(c, Double(m, 10, FALSE),
                                    <<c, m>> \in KelvinProductsBelowHalf))
        r1 == kelvin(p.r, mult.red)
        g1 == kelvin(p.g, mult.green)
        b1 == kelvin(p.b, mult.blue)
        bright(c) == clamp(Times(c, GlareBrightness(glareReading),
                                 <<c, glareReading>> \in BrightnessProductsBelowHalf))
        r2 == bright(r1)
        g2 == bright(g1)
        b2 == bright(b1)
        sum == r2 + g2 + b2
        avg == Double(sum, 3, FALSE)
        blend(c) == Desaturate(FirstPass(c, avg, criReading), avg, criReading)
        stored(c) == clamp([blend(c) EXCEPT
                               !.below = <<c, sum, criReading>> \in BlendsBelowHalf])
    IN  [afterKelvin |-> Pixel(r1, g1, b1, p.a),
         afterBrightness |-> Pixel(r2, g2, b2, p.a),
         avg |-> avg,
         blended |-> [r |-> blend(r2), g |-> blend(g2), b |-> blend(b2)],
         stored |-> Pixel(stored(r2), stored(g2), stored(b2), p.a)]

\* the working buffer being the original buffer itself
SameImageData(source) == source

\* line 525: new ImageData(new Uint8ClampedArray(originalImageData.data), ...)
NewImageData(source) == [ref |-> "copy", data |-> source.data]

\* the glare taken as 0 while the flicker metric is above 8
processImageSteadiedByFlicker(original, cctReading, criReading, glareReading, flickerMetric) ==
    LET imageData == NewImageData(original)
        mult == KelvinMultipliers(cctReading)
        steadied == IF DoubleLe(flickerMetric, Exact(8)) THEN glareReading ELSE 0
        stages == [i \in DOMAIN imageData.data |->
                      ProcessPixel(imageData.data[i], mult, steadied, criReading)]
    IN  [multipliers |-> mult,
         brightnessMultiplier |-> GlareBrightness(glareReading),
         pixelStages |-> stages,
         aliased |-> imageData.ref = original.ref]

\* every pixel stored opaque
processImageOpaque(original, cctReading, criReading, glareReading, flickerMetric) ==
    LET imageData == NewImageData(original)
        mult == KelvinMultipliers(cctReading)
        stages == [i \in DOMAIN imageData.data |->
                      [ProcessPixel(imageData.data[i], mult, glareReading, criReading)
                          EXCEPT !.stored.a = 255]]
    IN  [multipliers |-> mult,
         brightnessMultiplier |-> GlareBrightness(glareReading),
         pixelStages |-> stages,
         aliased |-> imageData.ref = original.ref]

\* lines 521-621, called with cct, cri, glare and flicker.  The loop writes
\* into the working buffer; aliased says that the working buffer and the
\* original are one object.
processImageWithLighting(original, cctReading, criReading, glareReading, flickerMetric) ==
    LET imageData == NewImageData(original)
        mult == KelvinMultipliers(cctReading)
        stages == [i \in DOMAIN imageData.data |->
                      ProcessPixel(imageData.data[i], mult, glareReading, criReading)]
    IN  [multipliers |-> mult,
         brightnessMultiplier |-> GlareBrightness(glareReading),
         pixelStages |-> stages,
         aliased |-> imageData.ref = original.ref]

\* line 499: (1 / parseInt(flickerSlider.value)) * 10000, as a quotient
FlickerMetric(raw) == Double(10000, raw, FALSE)

\* the blur starting at glare 60
EffectClassesFrom60(classList, glareReading, metric) ==
    LET flickering == ~DoubleLe(metric, Exact(8))
        afterFlicker == IF flickering THEN classList \cup {"flicker"}
                        ELSE classList \ {"flicker"}
    IN  IF glareReading >= 60 \/ flickering THEN afterFlicker \cup {"blurred"}
        ELSE afterFlicker \ {"blurred"}

\* lines 505-517: the classes applyVisualEffects adds and removes
EffectClasses(classList, glareReading, metric) ==
    LET flickering == ~DoubleLe(metric, Exact(8))
        afterFlicker == IF flickering THEN classList \cup {"flicker"}
                        ELSE classList \ {"flicker"}
    IN  IF glareReading > 60 \/ flickering THEN afterFlicker \cup {"blurred"}
        ELSE afterFlicker \ {"blurred"}

(* The rendering specification: the image is given and not yet loaded, the *)
(* sliders stand anywhere; the image loads, and the sliders are moved.     *)

Channels == {0, 45, 95, 255}
CctReadings == {2000, 3500, 5000, 6500, 8000}
CriReadings == {0, 25, 90, 94, 95, 100}
GlareReadings == {0, 7, 19, 28, 37, 100}
FlickerReadings == {100, 1250}

\* one-pixel images over every combination of the channels, two of them
\* translucent, and longer images over two pixels
OpaquePixels == {Pixel(r, g, b, 255) : r \in Channels, g \in Channels, b \in Channels}
TranslucentPixels == {Pixel(95, 45, 255, a) : a \in {0, 128}}
FewPixels == {Pixel(255, 255, 255, 255), Pixel(45, 95, 255, 128)}
ClassroomImages ==
    {<<p>> : p \in OpaquePixels \cup TranslucentPixels}
        \cup UNION {[1..n -> FewPixels] : n \in 2..MaxPixels}

InitRender ==
    /\ cct \in CctReadings
    /\ cri \in CriReadings
    /\ glare \in GlareReadings
    /\ flickerSlider \in FlickerReadings
    /\ classroomImage \in ClassroomImages
    /\ originalImageData = Null
    /\ multipliers = <<>>
    /\ brightnessMultiplier = <<>>
    /\ pixelStages = <<>>
    /\ canvasData = <<>>
    /\ canvasClassList = {}
    /\ renderings = 0
    /\ flicker = <<>>
    /\ NoMatch
    /\ NoScore
    /\ NoEvaluate
    /\ NoPage

\* lines 493-518 on the buffer original, with the sliders as in the next
\* state; line 622 paints the working buffer
ApplyVisualEffects(original) ==
    /\ \E done \in {processImageWithLighting(original, cct', cri', glare',
                                             FlickerMetric(flickerSlider'))} :
          /\ multipliers' = done.multipliers
          /\ brightnessMultiplier' = done.brightnessMultiplier
          /\ pixelStages' = done.pixelStages
          /\ canvasData' = [i \in DOMAIN done.pixelStages |-> done.pixelStages[i].stored]
          /\ originalImageData' =
                 IF done.aliased THEN [original EXCEPT !.data = canvasData']
                 ELSE original
    /\ canvasClassList' =
           EffectClasses(canvasClassList, glare', FlickerMetric(flickerSlider'))
    /\ renderings' = MathMin(renderings + 1, MaxRenderings)
    /\ flicker' = FlickerMetric(flickerSlider')

\* lines 340-356: the image has loaded
ClassroomImageOnload ==
    /\ UNCHANGED <<cct, cri, glare, flickerSlider, classroomImage>>
    /\ ApplyVisualEffects([ref |-> "original", data |-> classroomImage])
    /\ UNCHANGED <<matchVars, pageVars, scoreVars, evalVars>>

\* lines 287-290: a slider is moved
SliderInput ==
    /\ \/ cct' \in CctReadings \ {cct} /\ UNCHANGED <<cri, glare, flickerSlider>>
       \/ cri' \in CriReadings \ {cri} /\ UNCHANGED <<cct, glare, flickerSlider>>
       \/ glare' \in GlareReadings \ {glare} /\ UNCHANGED <<cct, cri, flickerSlider>>
       \/ flickerSlider' \in FlickerReadings \ {flickerSlider}
             /\ UNCHANGED <<cct, cri, glare>>
    /\ IF originalImageData = Null
       THEN UNCHANGED <<multipliers, brightnessMultiplier, pixelStages,
                        originalImageData, canvasData, canvasClassList, renderings,
                        flicker>>
       ELSE ApplyVisualEffects(originalImageData)
    /\ UNCHANGED <<classroomImage, matchVars, pageVars, scoreVars, evalVars>>

NextRender == ClassroomImageOnload \/ SliderInput

SpecRender == InitRender /\ [][NextRender]_vars

(* Rendering: properties *)

Rendered == originalImageData # Null

Is(x, n, d) == x.num * d = n * x.den

\* the brightness the pieces 1.0 + (glare/19)*0.3 and
\* 1.3 + ((glare-19)/9)*2.7 give, and its values at 0, 19, 28 and 37
BrightnessAsStated ==
    Rendered =>
        /\ (glare <= 19) => Is(brightnessMultiplier, 190 + 3 * glare, 190)
        /\ (glare > 19) => Is(brightnessMultiplier, 117 + 27 * (glare - 19), 90)
        /\ (glare = 0) => Is(brightnessMultiplier, 1, 1)
        /\ (glare = 19) =>
              /\ Is(brightnessMultiplier, 13, 10)
              /\ Is(brightnessMultiplier, 117 + 27 * (glare - 19), 90)
        /\ (glare = 28) => Is(brightnessMultiplier, 4, 1)
        /\ (glare = 37) => Is(brightnessMultiplier, 67, 10)

\* C11: the glare brightness is 1.0 + (glare/19)*0.3 for glare <= 19 and
\* 1.3 + ((glare-19)/9)*2.7 above: it is 1.0 at glare 0, 1.3 at glare 19
\* from either piece, 4.0 at glare 28 and 6.7 at glare 37 (no cap above 28),
\* and a rendering at a glare no lower than the last one's is no darker.
C11_Brightness ==
    /\ []BrightnessAsStated
    /\ [][(Rendered /\ Rendered' /\ glare <= glare')
              => DoubleLe(brightnessMultiplier, brightnessMultiplier')]_vars

C11_Witness ==
    /\ Rendered
    /\ glare = 37
    /\ Is(brightnessMultiplier, 67, 10)

Bytes == 0..255

InBytes(p) == p.r \in Bytes /\ p.g \in Bytes /\ p.b \in Bytes

\* C12: every r, g and b written to the canvas is an integer in 0..255, and
\* so are the values after the Kelvin stage and after the brightness stage.
C12_ChannelsInBytes ==
    Rendered =>
        \A i \in DOMAIN pixelStages :
            /\ InBytes(pixelStages[i].afterKelvin)
            /\ InBytes(pixelStages[i].afterBrightness)
            /\ InBytes(pixelStages[i].stored)
            /\ InBytes(canvasData[i])

C12_Witness ==
    /\ Rendered
    /\ cct = 2000 /\ glare = 100
    /\ classroomImage[1].r = 255
    /\ pixelStages[1].afterKelvin.r = 255
    /\ pixelStages[1].afterBrightness.r = 255
    /\ canvasData[1].r \in Bytes

SameColour(p, q) == p.r = q.r /\ p.g = q.g /\ p.b = q.b

Grey(p) == p.r = p.g /\ p.g = p.b

\* C13: at cri = 100 the CRI stage changes nothing: the pixel painted is the
\* pixel after the Kelvin and brightness stages.
C13_FullCriIsIdentity ==
    (Rendered /\ cri = 100) =>
        \A i \in DOMAIN canvasData :
            SameColour(canvasData[i], pixelStages[i].afterBrightness)

C13_Witness ==
    /\ Rendered
    /\ cri = 100
    /\ ~Grey(pixelStages[1].afterBrightness)
    /\ pixelStages[1].afterBrightness # classroomImage[1]
    /\ SameColour(canvasData[1], pixelStages[1].afterBrightness)

\* the weight, in 20000ths, with which a channel has moved toward the
\* average after lerp(c, avg, 1 - cri/100) (only below cri 95) followed by
\* lerp(c, avg, 0.5 * (1 - cri/100))
BlendWeight ==
    IF cri < 95 THEN (100 - cri) * (300 - (100 - cri)) ELSE 100 * (100 - cri)

\* the blended value x of the channel c, and the byte o stored for it
BlendAsStated(c, sum, x, o) ==
    /\ 180000 % x.den = 0
    /\ x.num * (180000 \div x.den) = 3 * (60000 * c + (sum - 3 * c) * BlendWeight)
    /\ \/ DoubleLe(Exact(c), x) /\ DoubleLe(x, Double(sum, 3, FALSE))
       \/ DoubleLe(Double(sum, 3, FALSE), x) /\ DoubleLe(x, Exact(c))
    /\ 2 * (o * x.den - x.num) <= x.den
    /\ 2 * (x.num - o * x.den) <= x.den
    /\ (cri = 0) => Is(x, sum, 3)

\* C14: the average is (r + g + b) / 3 of the channels after the brightness
\* stage, taken once; each channel is blended toward it by 1 - cri/100 only
\* when cri < 95 and then always by 0.5 * (1 - cri/100), so that every
\* blended value lies between the channel and the average and the byte
\* stored is that value rounded; at cri = 0 the three channels are the
\* average, and from cri 95 on only the half-strength blend is applied.
C14_CriBlend ==
    Rendered =>
        \A i \in DOMAIN pixelStages :
            LET stage == pixelStages[i]
                p == stage.afterBrightness
                sum == p.r + p.g + p.b
            IN  /\ Is(stage.avg, sum, 3)
                /\ BlendAsStated(p.r, sum, stage.blended.r, canvasData[i].r)
                /\ BlendAsStated(p.g, sum, stage.blended.g, canvasData[i].g)
                /\ BlendAsStated(p.b, sum, stage.blended.b, canvasData[i].b)
                /\ (cri = 0) => Grey(canvasData[i])

C14_Witness ==
    /\ Rendered
    /\ cri = 94
    /\ ~Grey(pixelStages[1].afterBrightness)
    /\ ~SameColour(canvasData[1], pixelStages[1].afterBrightness)
    /\ ~Grey(canvasData[1])

\* C15: the lighting transform never changes originalImageData: after any
\* number of renderings it holds the pixels taken from the image, every
\* rendering having written to a copy.
C15_OriginalUntouched ==
    /\ [](Rendered => originalImageData = [ref |-> "original", data |-> classroomImage])
    /\ [][Rendered => originalImageData' = originalImageData]_vars

C15_Witness ==
    /\ Rendered
    /\ renderings = MaxRenderings
    /\ canvasData # classroomImage
    /\ originalImageData.data = classroomImage

\* what the first rendering of an image paints at the given readings
PaintedAlone(image, cctReading, criReading, glareReading) ==
    LET stages == processImageWithLighting([ref |-> "original", data |-> image],
                      cctReading, criReading, glareReading,
                      FlickerMetric(flickerSlider)).pixelStages
    IN  [i \in DOMAIN stages |-> stages[i].stored]

\* C16: the rendering is deterministic and without memory: whatever was
\* rendered before, the canvas shows what a first rendering of the image at
\* the present readings paints, and a rendering at unchanged readings
\* leaves the canvas as it is.
C16_HistoryFree ==
    /\ [](Rendered => canvasData = PaintedAlone(classroomImage, cct, cri, glare))
    /\ [][(Rendered /\ Rendered' /\ cct' = cct /\ cri' = cri /\ glare' = glare)
              => canvasData' = canvasData]_vars

C16_Witness ==
    /\ renderings = MaxRenderings
    /\ cri = 90 /\ glare = 7
    /\ canvasData # classroomImage
    /\ canvasData = PaintedAlone(classroomImage, cct, cri, glare)

----------------------------------------------------------------------------
(* The evaluation handlers of New/simulator.js: updateValidationStatus     *)
(* (lines 315-388), compareValues (lines 926-953), the input listeners of  *)
(* a slider (lines 305-309 and 1188-1209) and the debounced update of the  *)
(* cards (lines 1196-1208).                                                *)
(*                                                                         *)
(* Slider readings are whole numbers (no slider is given a step), on which *)
(* parseInt and parseFloat agree.  The flicker readings of this model      *)
(* divide 10000: for them the double (1 / raw) * 10000 is the whole number *)
(* 10000 / raw.  The page is taken to have the six sliders setSliderRanges *)
(* sets up and every status element; apiData is loaded and a grade and an  *)
(* environment are selected.                                               *)

\* the metric left as the raw reading
FlickerUnconverted(raw) == Double(raw, 1, FALSE)

\* line 332: (1 / parseFloat(flickerSlider.value)) * 10000
FlickerOfValidation(raw) == Double(10000, raw, FALSE)

\* line 937: (1 / parseInt(flickerSlider.value)) * 10000
FlickerOfCompareValues(raw) == Double(10000, raw, FALSE)

\* line 1198: (1 / parseInt(flickerSlider.value)) * 10000
FlickerOfInputHandler(raw) == Double(10000, raw, FALSE)

\* a double that is a whole number
Whole(x) == x.num \div x.den

Sliders ==
    [cct |-> cct, cri |-> cri, flicker |-> flickerSlider, glare |-> glare,
     vertical |-> verticalSlider, lux |-> luxSlider]

\* lines 329-340; Uniformity, in tenths, Melanopic_EDI and Exposure_Duration
\* have no slider and take their defaults
ValidationReadings(sl) ==
    [CCT |-> Num(sl.cct),
     CRI |-> Num(sl.cri),
     Flicker |-> Num(Whole(FlickerOfValidation(sl.flicker))),
     UGR |-> Num(sl.glare),
     Uniformity |-> Num(8),
     Melanopic_EDI |-> Num(200),
     Vertical_Illuminance |-> Num(sl.vertical),
     Exposure_Duration |-> Num(8),
     Lux |-> Num(sl.lux)]

\* line 366
LevelRating(level) ==
    IF level = "highly_recommended" THEN "good"
    ELSE IF level = "recommended" THEN "medium"
    ELSE "bad"

\* the keys of an entry that contribute a record, without the skip of line 358
RecordKeysUnskipped(env) == {p \in DOMAIN env : env[p].hasRange}

\* lines 357-361: the keys of an entry that contribute a record
RecordKeys(env) == {p \in DOMAIN env \ {"range", "images"} : env[p].hasRange}

\* lines 350-374: the record lists of the selected environment.  A record
\* carries the position of its level, which stands for the reason and the
\* recommendation it took from that level's entry.
RECURSIVE Flatten(_, _, _)
Flatten(levels, i, data) ==
    IF i > Len(levels) THEN data
    ELSE IF ~levels[i].hasEnv THEN Flatten(levels, i + 1, data)
    ELSE LET env == levels[i].envData
             keys == RecordKeys(env)
         IN  Flatten(levels, i + 1,
                 [p \in DOMAIN data \cup keys |->
                     (IF p \in DOMAIN data THEN data[p] ELSE <<>>)
                         \o (IF p \in keys
                             THEN <<[range |-> env[p].range,
                                     rating |-> LevelRating(levels[i].level),
                                     level |-> i]>>
                             ELSE <<>>)])

\* lines 379-387
StatusParams ==
    {"CCT", "CRI", "Flicker", "UGR", "Uniformity", "Melanopic_EDI",
     "Vertical_Illuminance", "Exposure_Duration", "Lux"}

\* parameterData[param]: a record list, or undefined
ParamDataArray(data, param) ==
    IF param \in DOMAIN data THEN [isArray |-> TRUE, recs |-> data[param]]
    ELSE [isArray |-> FALSE, recs |-> <<>>]

NoBounds == [shown |-> FALSE, lower |-> Ratio(0, 1), upper |-> Ratio(0, 1)]

\* the bounds an outside-range text names
Bounds(lower, upper) == [shown |-> TRUE, lower |-> lower, upper |-> upper]

\* lines 449-452: the bounds the status text names when the value is
\* outside all ranges
StatusBounds(paramName, value, arr) ==
    LET status == updateParameterValidation(value, arr)
    IN  IF status.form = "BAD - Outside recommended range (min-max)"
        THEN Bounds(Ratio(arr.recs[status.bestMatch].range.min, 1),
                    Ratio(arr.recs[status.bestMatch].range.max, 1))
        ELSE NoBounds

\* lines 315-388
updateValidationStatus(grade, sl) ==
    IF ~grade.defined \/ ~grade.hasLevels
    THEN [returned |-> TRUE, values |-> <<>>, parameterData |-> <<>>,
          statusElements |-> <<>>, statusBounds |-> <<>>]
    ELSE LET values == ValidationReadings(sl)
             data == Flatten(grade.levels, 1, <<>>)
         IN  [returned |-> FALSE,
              values |-> values,
              parameterData |-> data,
              statusElements |->
                  [p \in StatusParams |->
                      updateParameterValidation(values[p], ParamDataArray(data, p))],
              statusBounds |->
                  [p \in StatusParams |->
                      StatusBounds(p, values[p], ParamDataArray(data, p))]]

\* lines 934-944
CompareValuesReadings(sl) ==
    [CCT |-> sl.cct,
     CRI |-> sl.cri,
     Flicker |-> Whole(FlickerOfCompareValues(sl.flicker)),
     UGR |-> sl.glare,
     Vertical_Illuminance |-> sl.vertical,
     Lux |-> sl.lux]

\* lines 1196-1206
InputHandlerReadings(sl) ==
    [CCT |-> sl.cct,
     CRI |-> sl.cri,
     Flicker |-> Whole(FlickerOfInputHandler(sl.flicker)),
     UGR |-> sl.glare,
     Vertical_Illuminance |-> sl.vertical,
     Lux |-> sl.lux]

\* line 1040: the bounds the reason of a parameter out of range names;
\* (1 / 0) * 10000 is Infinity
OutsideRangeReason(param, range) ==
    IF param = "Flicker"
    THEN Bounds(Ratio(10000, range.max), Ratio(10000, range.min))
    ELSE Bounds(Ratio(range.min, 1), Ratio(range.max, 1))

\* lines 1011-1047: the reasons of the parameters out of range
EnvironmentReasons(values, env) ==
    [p \in {q \in DOMAIN env \ {"range", "images"} :
               /\ q \in DOMAIN values
               /\ env[q].hasRange
               /\ ~InRecommendedRange(values[q], env[q].range)}
        |-> OutsideRangeReason(p, env[p].range)]

\* lines 989-1114: the reasons, card by card
CardReasons(values, grade) ==
    IF updateRecommendationCards(values, grade).kind = "cards"
    THEN LET shown == SelectSeq(grade.levels, LAMBDA l : l.hasEnv)
         IN  [i \in 1..Len(shown) |-> EnvironmentReasons(values, shown[i].envData)]
    ELSE <<>>

(* The evaluation specification.  The catalogs are of two families: a      *)
(* single level whose entry gives Flicker and Lux each a range, and every  *)
(* order of up to three levels, each without the selected environment or   *)
(* with one of a few entries.                                              *)

EvalEnds == {0, 8, 500}
EvalRanges == {r \in [min : EvalEnds, max : EvalEnds] : r.min <= r.max}
FlickerRaws == {100, 1000, 1250, 2000, 10000}

Entry(range) == [hasRange |-> TRUE, range |-> range]

RangedCatalogs ==
    {Grade(<<Level("highly_recommended", TRUE,
                   [Flicker |-> Entry(rf), Lux |-> Entry(rl)])>>) :
        rf \in EvalRanges, rl \in EvalRanges}

EvalEnvs ==
    {[Flicker |-> Entry([min |-> 0, max |-> 8]),
      Lux |-> Entry([min |-> 0, max |-> 500])],
     [Flicker |-> WithoutRange,
      Lux |-> Entry([min |-> 500, max |-> 500]),
      images |-> WithoutRange],
     [range |-> Entry([min |-> 0, max |-> 0]),
      Flicker |-> Entry([min |-> 8, max |-> 8])]}

LevelChoices ==
    {[hasEnv |-> FALSE, envData |-> <<>>]}
        \cup {[hasEnv |-> TRUE, envData |-> e] : e \in EvalEnvs}

LevelOrders ==
    {o \in UNION {[1..n -> {LevelNames[i] : i \in 1..Len(LevelNames)}] :
                     n \in 0..Len(LevelNames)} :
        \A i \in DOMAIN o : \A j \in DOMAIN o : o[i] = o[j] => i = j}

ShapedCatalogs ==
    {[defined |-> FALSE, hasLevels |-> FALSE, levels |-> <<>>],
     [defined |-> TRUE, hasLevels |-> FALSE, levels |-> <<>>]}
        \cup UNION {{Grade([i \in DOMAIN o |->
                               Level(o[i], c[i].hasEnv, c[i].envData)]) :
                        c \in [DOMAIN o -> LevelChoices]} : o \in LevelOrders}

\* the readings setSliderRanges gives the sliders: lines 225-288
InitEvaluate ==
    /\ cct = 6500
    /\ cri = 80
    /\ flickerSlider = 1250
    /\ glare = 6
    /\ verticalSlider = 300
    /\ luxSlider = 500
    /\ gradeData \in RangedCatalogs \cup ShapedCatalogs
    /\ currentValues = <<>>
    /\ recommendationCards = NoCards
    /\ validationValues = <<>>
    /\ parameterData = <<>>
    /\ statusElements = <<>>
    /\ statusBounds = <<>>
    /\ cardReasons = <<>>
    /\ updateTimeout = FALSE
    /\ classroomImage = <<Pixel(255, 255, 255, 255)>>
    /\ originalImageData = Null
    /\ multipliers = <<>>
    /\ brightnessMultiplier = <<>>
    /\ pixelStages = <<>>
    /\ canvasData = <<>>
    /\ canvasClassList = {}
    /\ renderings = 0
    /\ flicker = <<>>
    /\ NoMatch
    /\ NoPage

\* lines 315-388 with the sliders as in the next state
UpdateValidationStatus ==
    \E done \in {updateValidationStatus(gradeData, Sliders')} :
        IF done.returned
        THEN UNCHANGED <<validationValues, parameterData, statusElements, statusBounds>>
        ELSE /\ validationValues' = done.values
             /\ parameterData' = done.parameterData
             /\ statusElements' = done.statusElements
             /\ statusBounds' = done.statusBounds

\* lines 956-1154 on the readings values
UpdateCards(values) ==
    /\ currentValues' = values
    /\ recommendationCards' = updateRecommendationCards(values, gradeData)
    /\ cardReasons' = CardReasons(values, gradeData)

\* lines 926-953
CompareValues ==
    /\ UpdateCards(CompareValuesReadings(Sliders))
    /\ UNCHANGED <<gradeData, validationValues, parameterData, statusElements,
                   statusBounds, updateTimeout, verticalSlider, luxSlider,
                   matchVars, pageVars, lightVars, renderVars>>

\* the input listeners of the flicker slider, lines 305-309 and 1188-1209:
\* the visual effects, the validation status (written twice, to the same
\* effect) and the start of the debounce timer
FlickerInput ==
    /\ flickerSlider' \in FlickerRaws \ {flickerSlider}
    /\ UNCHANGED <<cct, cri, glare, verticalSlider, luxSlider, classroomImage>>
    /\ IF originalImageData = Null
       THEN UNCHANGED <<multipliers, brightnessMultiplier, pixelStages,
                        originalImageData, canvasData, canvasClassList, renderings,
                        flicker>>
       ELSE ApplyVisualEffects(originalImageData)
    /\ UpdateValidationStatus
    /\ updateTimeout' = TRUE
    /\ UNCHANGED <<scoreVars, cardReasons, matchVars, pageVars>>

\* lines 1196-1208: the debounce timer fires
UpdateTimeout ==
    /\ updateTimeout
    /\ updateTimeout' = FALSE
    /\ UpdateCards(InputHandlerReadings(Sliders))
    /\ UNCHANGED <<gradeData, validationValues, parameterData, statusElements,
                   statusBounds, verticalSlider, luxSlider,
                   matchVars, pageVars, lightVars, renderVars>>

\* lines 544-557: the image initializeCanvas requested for a card has loaded
CardImageOnload ==
    /\ recommendationCards.kind = "cards"
    /\ ClassroomImageOnload

NextEvaluate == CompareValues \/ FlickerInput \/ UpdateTimeout \/ CardImageOnload

SpecEvaluate == InitEvaluate /\ [][NextEvaluate]_vars

(* Evaluation: properties *)

Validating == statusElements # <<>>

\* the entries the cards of the selected environment were made from
CardEnvs == SelectSeq(gradeData.levels, LAMBDA l : l.hasEnv)

\* the two ratios are the same number (a zero denominator is Infinity)
SameRatio(r, s) == r.num * s.den = s.num * r.den /\ (r.den = 0 <=> s.den = 0)

\* the bounds named are those of the range, taken back through 10000 / x
\* for Flicker and as stored for any other parameter
NamesBounds(named, param, range) ==
    IF param = "Flicker"
    THEN /\ SameRatio(named.lower, Ratio(10000, range.max))
         /\ SameRatio(named.upper, Ratio(10000, range.min))
    ELSE /\ SameRatio(named.lower, Ratio(range.min, 1))
         /\ SameRatio(named.upper, Ratio(range.max, 1))

\* C17. Every outside-range message, in a status element and in the reasons
\* of a card alike, names for Flicker the bounds 10000 / max and 10000 / min
\* of the stored range, and for every other parameter the stored min and max.
C17_OutsideRangeReinverted ==
    /\ \A p \in DOMAIN statusBounds :
           statusBounds[p].shown =>
               NamesBounds(statusBounds[p], p,
                           parameterData[p][statusElements[p].bestMatch].range)
    /\ \A i \in DOMAIN cardReasons :
           \A p \in DOMAIN cardReasons[i] :
               NamesBounds(cardReasons[i][p], p, CardEnvs[i].envData[p].range)

\* the metric of the reading the flicker slider shows
Metric == 10000 \div flickerSlider

\* the cards are those of the readings the sliders show
CardsCurrent == Scored /\ ~updateTimeout

\* C18. The visual effects, compareValues, the debounced input handler and
\* updateValidationStatus all derive the metric 10000 / raw from the raw
\* flicker reading, and the evaluation compares that metric as it is with
\* the stored range: a range holds the reading exactly when
\* min <= 10000 / raw <= max.
C18_FlickerSitesAgree ==
    /\ 10000 % flickerSlider = 0
    /\ Rendered => Is(flicker, Metric, 1)
    /\ Validating =>
           /\ validationValues["Flicker"] = Num(Metric)
           /\ "Flicker" \in DOMAIN parameterData =>
                  (statusElements["Flicker"].form = "RATING - reason"
                      <=> \E i \in DOMAIN parameterData["Flicker"] :
                             LET range == parameterData["Flicker"][i].range
                             IN  range.min <= Metric /\ Metric <= range.max)
    /\ CardsCurrent =>
           /\ currentValues["Flicker"] = Metric
           /\ \A i \in DOMAIN cardReasons :
                  LET env == CardEnvs[i].envData
                  IN  "Flicker" \in DOMAIN cardReasons[i]
                          <=> /\ "Flicker" \in DOMAIN env
                              /\ env["Flicker"].hasRange
                              /\ ~(env["Flicker"].range.min <= Metric
                                      /\ Metric <= env["Flicker"].range.max)

C18_Witness ==
    /\ Rendered
    /\ Validating
    /\ CardsCurrent
    /\ flickerSlider = 100
    /\ Is(flicker, 100, 1)
    /\ currentValues["Flicker"] = 100
    /\ validationValues["Flicker"] = Num(100)
    /\ statusElements["Flicker"].form = "RATING - reason"
    /\ cardReasons # <<>>
    /\ "Flicker" \notin DOMAIN cardReasons[1]

\* some level of the catalog has an entry for the selected environment
Evaluable ==
    /\ gradeData.defined
    /\ gradeData.hasLevels
    /\ \E i \in DOMAIN gradeData.levels : gradeData.levels[i].hasEnv

\* C19. With a partial or absent catalog the evaluation shows the no-data
\* result and nothing else: the cards never report an error, they read "No
\* Age-Specific Recommendations Available" when no level has an entry for the
\* selected environment (grade missing, no lighting data, no levels, no
\* environments, environment absent), and once a slider was moved every
\* parameter without records has the status "No Data Available".
C19_PartialCatalogShowsNoData ==
    /\ Scored =>
           /\ recommendationCards.kind # "Error Loading Recommendations"
           /\ ~Evaluable =>
                  recommendationCards.kind = "No Age-Specific Recommendations Available"
    /\ updateTimeout =>
           /\ Validating
           /\ \A p \in StatusParams \ DOMAIN parameterData :
                  statusElements[p].form = "No Data Available"

\* the levels, by position, whose entry of the selected environment defines
\* a range for the parameter
Defining(p) ==
    {i \in DOMAIN gradeData.levels :
        /\ gradeData.levels[i].hasEnv
        /\ p \in DOMAIN gradeData.levels[i].envData
        /\ gradeData.levels[i].envData[p].hasRange}

\* every key of an entry of the selected environment, and every parameter
\* that has a status
CatalogKeys ==
    StatusParams \cup
        UNION {DOMAIN gradeData.levels[i].envData : i \in DOMAIN gradeData.levels}

TagOf ==
    [highly_recommended |-> "good", recommended |-> "medium",
     not_recommended |-> "bad"]

\* C20. The record list of a parameter holds exactly one record for each
\* level whose entry of the selected environment defines a range for it, in
\* the order the levels are iterated, with that range and the tag good,
\* medium or bad of highly_recommended, recommended or not_recommended; the
\* keys range and images, and entries without a range, give no record.
C20_Flattening ==
    Validating =>
        /\ DOMAIN parameterData \cap {"range", "images"} = {}
        /\ \A p \in DOMAIN parameterData : parameterData[p] # <<>>
        /\ \A p \in CatalogKeys \ {"range", "images"} :
               LET recs == IF p \in DOMAIN parameterData THEN parameterData[p]
                           ELSE <<>>
               IN  /\ Len(recs) = Cardinality(Defining(p))
                   /\ \A k \in DOMAIN recs :
                          LET l == gradeData.levels[recs[k].level]
                          IN  /\ recs[k].level \in Defining(p)
                              /\ recs[k].range = l.envData[p].range
                              /\ recs[k].rating = TagOf[l.level]
                   /\ \A k \in DOMAIN recs : \A m \in DOMAIN recs :
                          k < m => recs[k].level < recs[m].level

C20_Witness ==
    /\ Validating
    /\ Len(gradeData.levels) = 3
    /\ gradeData.levels[1].level = "not_recommended"
    /\ gradeData.levels[1].hasEnv
    /\ "range" \in DOMAIN gradeData.levels[1].envData
    /\ gradeData.levels[2].level = "highly_recommended"
    /\ gradeData.levels[2].hasEnv
    /\ "Flicker" \in DOMAIN gradeData.levels[2].envData
    /\ ~gradeData.levels[2].envData["Flicker"].hasRange
    /\ gradeData.levels[3].hasEnv
    /\ "Flicker" \in DOMAIN parameterData
    /\ Len(parameterData["Flicker"]) = 2
    /\ parameterData["Flicker"][1].rating = "bad"
    /\ parameterData["Flicker"][2].rating = "medium"
    /\ Len(parameterData["Lux"]) = 2
    /\ parameterData["Lux"][1].rating = "good"

----------------------------------------------------------------------------
(* The effect classes of the canvas: applyVisualEffects, lines 505-517 of  *)
(* classroom-simulator.js and 702-714 of New/simulator.js.  The glare and  *)
(* flicker sliders stand at and around the thresholds 60 and               *)
(* 10000 / 1250 = 8; the double (1 / raw) * 10000 is above 8 exactly for   *)
(* the readings below 1250.                                                *)

EffectGlares == {0, 6, 59, 60, 61, 100}
EffectFlickers == {100, 1000, 1249, 1250, 1251, 10000}

InitEffects ==
    /\ cct = 6500
    /\ cri = 80
    /\ glare \in EffectGlares
    /\ flickerSlider \in EffectFlickers
    /\ classroomImage = <<Pixel(255, 255, 255, 255)>>
    /\ originalImageData = Null
    /\ multipliers = <<>>
    /\ brightnessMultiplier = <<>>
    /\ pixelStages = <<>>
    /\ canvasData = <<>>
    /\ canvasClassList = {}
    /\ renderings = 0
    /\ flicker = <<>>
    /\ NoMatch
    /\ NoScore
    /\ NoEvaluate
    /\ NoPage

\* lines 287-290: the glare or the flicker slider is moved
EffectInput ==
    /\ \/ glare' \in EffectGlares \ {glare} /\ UNCHANGED flickerSlider
       \/ flickerSlider' \in EffectFlickers \ {flickerSlider} /\ UNCHANGED glare
    /\ UNCHANGED <<cct, cri>>
    /\ IF originalImageData = Null
       THEN UNCHANGED <<multipliers, brightnessMultiplier, pixelStages,
                        originalImageData, canvasData, canvasClassList, renderings,
                        flicker>>
       ELSE ApplyVisualEffects(originalImageData)
    /\ UNCHANGED <<classroomImage, matchVars, pageVars, scoreVars, evalVars>>

NextEffects == ClassroomImageOnload \/ EffectInput

SpecEffects == InitEffects /\ [][NextEffects]_vars

(* Effect classes: properties *)

\* the flicker metric 10000 / raw of the slider is above 8
MetricAbove8 == 10000 > 8 * flickerSlider

\* C21. Once applyVisualEffects has reached the canvas, the canvas has the
\* class flicker exactly when the flicker metric is above 8 and the class
\* blurred exactly when glare is above 60 or the metric is above 8: flicker
\* implies blurred, and the metric 8 with glare 60 sets neither.
C21_EffectClasses ==
    Rendered =>
        /\ "flicker" \in canvasClassList <=> MetricAbove8
        /\ "blurred" \in canvasClassList <=> (glare > 60 \/ MetricAbove8)
        /\ "flicker" \in canvasClassList => "blurred" \in canvasClassList
        /\ (flickerSlider = 1250 /\ glare = 60) => canvasClassList = {}

C21_Witness ==
    /\ Rendered
    /\ renderings = 2
    /\ flickerSlider = 1250
    /\ glare = 60
    /\ canvasClassList = {}

----------------------------------------------------------------------------
(* The reference image of a card: line 1052 of New/simulator.js *)

\* C22. The happy image (state 0) is selected for a card exactly when the
\* percentage of its environment is 100, and the sad image (state 1)
\* otherwise; a card without evaluated parameters, at 0 percent, selects the
\* sad image.
C22_HappyIffFullScore ==
    \A i \in 1..Len(Cards) :
        /\ Cards[i].currentImageState = 0
               <=> /\ Cards[i].percentage.den # 0
                   /\ Cards[i].percentage.num = 100 * Cards[i].percentage.den
        /\ Cards[i].totalParams = 0 => Cards[i].currentImageState = 1

----------------------------------------------------------------------------
(* The form of the status text: lines 445-456 of New/simulator.js *)

\* C25. For a non-empty record list and a finite reading the status text
\* is "BAD - Outside recommended range (min-max unit)" exactly when no
\* record's interval contains the reading; when some record contains it the
\* text is "<RATING> - <reason>".
C25_OutsideIffUncontained ==
    (Validated /\ paramDataArray.isArray /\ Len(Recs) > 0 /\ isFinite(currentValue)) =>
        /\ OutsideForm <=> Containing = {}
        /\ Containing # {} => WithinForm

C25_Witness ==
    /\ Validated
    /\ Len(Recs) = 2
    /\ isFinite(currentValue)
    /\ Containing = {}
    /\ OutsideForm
    /\ statusElement.bestMatch = 2

----------------------------------------------------------------------------
(* The frame of the lighting transform: lines 521-623 of                   *)
(* classroom-simulator.js.  The buffer is the sequence of its pixels, so   *)
(* its length stands for width * height * 4 bytes; the working ImageData   *)
(* is built with the width and height of the original (line 525).          *)

\* what processImageWithLighting paints from the image when called with the
\* flicker metric of the raw reading
PaintedAtFlicker(raw) ==
    LET stages == processImageWithLighting([ref |-> "original", data |-> classroomImage],
                      cct, cri, glare, FlickerMetric(raw)).pixelStages
    IN  [i \in DOMAIN stages |-> stages[i].stored]

\* C29. The flicker argument has no effect on the pixels: at the same
\* buffer, cct, cri and glare processImageWithLighting paints the same
\* buffer whatever its flicker argument, and moving the flicker slider alone
\* changes at most the classes of the canvas.
C29_FlickerLeavesPixels ==
    /\ [](Rendered =>
             \A raw \in FlickerReadings : PaintedAtFlicker(raw) = canvasData)
    /\ [][(Rendered /\ flickerSlider' # flickerSlider) =>
              /\ canvasData' = canvasData
              /\ pixelStages' = pixelStages]_vars

C29_Witness ==
    /\ renderings = MaxRenderings
    /\ flickerSlider = 100
    /\ "flicker" \in canvasClassList
    /\ glare = 19
    /\ canvasData # classroomImage
    /\ PaintedAtFlicker(1250) = canvasData

\* C30. The transform leaves the alpha byte of every pixel as it is in the
\* original and keeps the length of the buffer: only the red, green and blue
\* bytes of a pixel may differ.
C30_AlphaAndSizeKept ==
    Rendered =>
        /\ Len(canvasData) = Len(classroomImage)
        /\ Len(originalImageData.data) = Len(classroomImage)
        /\ \A i \in DOMAIN canvasData : canvasData[i].a = classroomImage[i].a

C30_Witness ==
    /\ Rendered
    /\ Len(canvasData) = MaxPixels
    /\ canvasData[2].a = 128
    /\ canvasData[2].r # classroomImage[2].r
    /\ canvasData[1].a = 255

----------------------------------------------------------------------------
(* The start of the page in New/simulator.js: initializeSimulator (lines   *)
(* 1161-1213), loadSelectedData (123-148), loadApiData (151-208) with its  *)
(* three awaits, hidePreloader (54-74), the slider listeners and           *)
(* compareValues.  classroom-simulator.js has the same code at lines       *)
(* 860-905, 109-134, 137-189 and 28-42, without updateValidationStatus.    *)
(* The preloader element and the sliders are taken to exist.               *)

\* the selection test with the environment left out
GradeSelected(grade, environment) == grade # ""

\* line 127: !selectedGrade || !selectedEnvironment, negated
Selected(grade, environment) == grade # "" /\ environment # ""

\* lines 927 and 1185: apiData && selectedGrade
DataReady(data, grade) == data # "null" /\ grade # ""

\* line 316: apiData && selectedGrade && selectedEnvironment
ValidationReady(data, grade, environment) ==
    data # "null" /\ grade # "" /\ environment # ""

\* the preloader left as it is
preloaderKept(shown) == shown

\* lines 54-74: the class hidden is added
hidePreloader(shown) == "hidden"

\* apiData[selectedGrade] before the merge, and when the grade is missing
Undefined == [defined |-> FALSE, hasLevels |-> FALSE, levels |-> <<>>]

\* what the merge of lines 172-178 may leave under the selected grade: its
\* data with a catalog, its data without lighting data, or nothing
LoadedGrades ==
    {Grade(<<Level("highly_recommended", TRUE,
                   [Flicker |-> Entry([min |-> 0, max |-> 8]),
                    Lux |-> Entry([min |-> 0, max |-> 500])])>>),
     [defined |-> TRUE, hasLevels |-> FALSE, levels |-> <<>>],
     Undefined}

LoadFlickers == {100, 1250}

InitLoad ==
    /\ cookies \in [selectedGrade : {"", "grade"},
                    selectedEnvironment : {"", "classroom"}]
    /\ selectedGrade = ""
    /\ selectedEnvironment = ""
    /\ location = "classroom.html"
    /\ listening = FALSE
    /\ loadApiDataAt = "unstarted"
    /\ apiData = "null"
    /\ preloader \in {"shown", "hidden"}
    /\ hideTimeout = FALSE
    /\ validationTimeout = FALSE
    /\ entered = [updateRecommendationCards |-> {}, updateParameterValidation |-> {}]
    /\ cct = 6500
    /\ cri = 80
    /\ flickerSlider = 1250
    /\ glare = 6
    /\ verticalSlider = 300
    /\ luxSlider = 500
    /\ gradeData = Undefined
    /\ currentValues = <<>>
    /\ recommendationCards = NoCards
    /\ validationValues = <<>>
    /\ parameterData = <<>>
    /\ statusElements = <<>>
    /\ statusBounds = <<>>
    /\ cardReasons = <<>>
    /\ updateTimeout = FALSE
    /\ classroomImage = <<Pixel(255, 255, 255, 255)>>
    /\ originalImageData = Null
    /\ multipliers = <<>>
    /\ brightnessMultiplier = <<>>
    /\ pixelStages = <<>>
    /\ canvasData = <<>>
    /\ canvasClassList = {}
    /\ renderings = 0
    /\ flicker = <<>>
    /\ NoMatch
    /\ NoDebounce
    /\ NoImages

\* lines 1161-1213: the preloader is shown, loadSelectedData reads the
\* cookies and either redirects or starts loadApiData, which runs up to its
\* first await; the listeners are registered
InitializeSimulator ==
    /\ ~listening
    /\ listening' = TRUE
    /\ selectedGrade' = cookies.selectedGrade
    /\ selectedEnvironment' = cookies.selectedEnvironment
    /\ preloader' = "shown"
    /\ IF Selected(selectedGrade', selectedEnvironment')
       THEN loadApiDataAt' = "fetch" /\ UNCHANGED location
       ELSE location' = "index.html" /\ UNCHANGED loadApiDataAt
    /\ UNCHANGED <<cookies, apiData, hideTimeout, validationTimeout, entered,
                   matchVars, scoreVars, lightVars, renderVars, evalVars,
                   debounceVars, imageVars>>

\* lines 200-207: the catch block of loadApiData
Catch ==
    /\ loadApiDataAt' = "settled"
    /\ hideTimeout' = TRUE
    /\ UNCHANGED <<preloader, validationTimeout, entered, scoreVars,
                   flickerSlider, cardReasons>>

\* lines 158-161: both fetches resolve, or one is rejected
FetchSettles ==
    /\ loadApiDataAt = "fetch"
    /\ \/ /\ loadApiDataAt' = "dataJson"
          /\ UNCHANGED <<hideTimeout, preloader, validationTimeout, entered,
                         scoreVars, flickerSlider, cardReasons>>
       \/ Catch
    /\ UNCHANGED <<cookies, selectedGrade, selectedEnvironment, location, listening,
                   apiData, matchVars, lightVars, cri, glare, classroomImage,
                   originalImageData, brightnessMultiplier, pixelStages, canvasData,
                   canvasClassList, renderings, flicker, verticalSlider, luxSlider,
                   validationValues, parameterData, statusElements, statusBounds,
                   updateTimeout, debounceVars, imageVars>>

\* line 164: newData.json is parsed, or is no JSON
DataJsonSettles ==
    /\ loadApiDataAt = "dataJson"
    /\ \/ /\ loadApiDataAt' = "lightingJson"
          /\ UNCHANGED <<hideTimeout, preloader, validationTimeout, entered,
                         scoreVars, flickerSlider, cardReasons>>
       \/ Catch
    /\ UNCHANGED <<cookies, selectedGrade, selectedEnvironment, location, listening,
                   apiData, matchVars, lightVars, cri, glare, classroomImage,
                   originalImageData, brightnessMultiplier, pixelStages, canvasData,
                   canvasClassList, renderings, flicker, verticalSlider, luxSlider,
                   validationValues, parameterData, statusElements, statusBounds,
                   updateTimeout, debounceVars, imageVars>>

\* lines 165-198: lighting.json is parsed and the rest of loadApiData runs
\* without another await.  The parse may fail; the merge of lines 172-178
\* throws at lightingJson[grade] when lighting.json holds null, after
\* apiData was set to {} at line 172; setSliderRanges throws when an element
\* it writes to is missing; otherwise the sliders take their defaults, the
\* validation timer and the hide timer are started and compareValues runs.
LightingJsonSettles ==
    /\ loadApiDataAt = "lightingJson"
    /\ UNCHANGED <<cookies, selectedGrade, selectedEnvironment, location, listening,
                   matchVars, lightVars, cri, glare, classroomImage,
                   originalImageData, brightnessMultiplier, pixelStages, canvasData,
                   canvasClassList, renderings, flicker, verticalSlider, luxSlider,
                   validationValues, parameterData, statusElements, statusBounds,
                   updateTimeout, debounceVars, imageVars>>
    /\ \/ /\ Catch
          /\ UNCHANGED apiData
       \/ /\ apiData' = "partial"
          /\ Catch
       \/ /\ apiData' = "merged"
          /\ gradeData' \in LoadedGrades
          /\ loadApiDataAt' = "settled"
          /\ hideTimeout' = TRUE
          /\ UNCHANGED <<preloader, validationTimeout, entered, currentValues,
                         recommendationCards, flickerSlider, cardReasons>>
       \/ /\ apiData' = "merged"
          /\ gradeData' \in LoadedGrades
          /\ flickerSlider' = 1250
          /\ validationTimeout' = TRUE
          /\ currentValues' = CompareValuesReadings(Sliders')
          /\ recommendationCards' =
                 updateRecommendationCards(currentValues', gradeData')
          /\ cardReasons' = CardReasons(currentValues', gradeData')
          /\ entered' = [entered EXCEPT !.updateRecommendationCards = @ \cup {apiData'}]
          /\ loadApiDataAt' = "settled"
          /\ hideTimeout' = TRUE
          /\ UNCHANGED preloader

\* lines 196-198 and 203-206: a timer calls hidePreloader
HideTimeout ==
    /\ hideTimeout
    /\ hideTimeout' = FALSE
    /\ preloader' = hidePreloader(preloader)
    /\ UNCHANGED <<cookies, selectedGrade, selectedEnvironment, location, listening,
                   loadApiDataAt, apiData, validationTimeout, entered,
                   matchVars, scoreVars, lightVars, renderVars, evalVars,
                   debounceVars, imageVars>>

\* lines 315-388 behind the guard of line 316, with the sliders as in the
\* next state
ValidationStatus ==
    \E done \in {updateValidationStatus(gradeData, Sliders')} :
        IF ValidationReady(apiData, selectedGrade, selectedEnvironment)
               /\ ~done.returned
        THEN /\ validationValues' = done.values
             /\ parameterData' = done.parameterData
             /\ statusElements' = done.statusElements
             /\ statusBounds' = done.statusBounds
             /\ entered' = [entered EXCEPT !.updateParameterValidation = @ \cup {apiData}]
        ELSE UNCHANGED <<validationValues, parameterData, statusElements,
                         statusBounds, entered>>

\* lines 185-187: the timer started by loadApiData calls updateValidationStatus
ValidationTimeout ==
    /\ validationTimeout
    /\ validationTimeout' = FALSE
    /\ UNCHANGED <<cookies, selectedGrade, selectedEnvironment, location, listening,
                   loadApiDataAt, apiData, preloader, hideTimeout,
                   matchVars, scoreVars, lightVars, renderVars, verticalSlider,
                   luxSlider, cardReasons, updateTimeout, debounceVars, imageVars>>
    /\ ValidationStatus

\* lines 306-310 and 1184-1209: the flicker slider is moved and its two
\* listeners run
LoadSliderInput ==
    /\ listening
    /\ flickerSlider' \in LoadFlickers \ {flickerSlider}
    /\ UNCHANGED <<cct, cri, glare, verticalSlider, luxSlider, classroomImage>>
    /\ IF originalImageData = Null
       THEN UNCHANGED <<multipliers, brightnessMultiplier, pixelStages,
                        originalImageData, canvasData, canvasClassList, renderings,
                        flicker>>
       ELSE ApplyVisualEffects(originalImageData)
    /\ ValidationStatus
    /\ updateTimeout' = (updateTimeout \/ DataReady(apiData, selectedGrade))
    /\ UNCHANGED <<cookies, selectedGrade, selectedEnvironment, location, listening,
                   loadApiDataAt, apiData, preloader, hideTimeout, validationTimeout,
                   matchVars, scoreVars, cardReasons, debounceVars, imageVars>>

\* lines 1195-1208: the debounce timer fires
LoadUpdateTimeout ==
    /\ updateTimeout
    /\ updateTimeout' = FALSE
    /\ UpdateCards(InputHandlerReadings(Sliders))
    /\ entered' = [entered EXCEPT !.updateRecommendationCards = @ \cup {apiData}]
    /\ UNCHANGED <<cookies, selectedGrade, selectedEnvironment, location, listening,
                   loadApiDataAt, apiData, preloader, hideTimeout, validationTimeout,
                   gradeData, validationValues, parameterData, statusElements,
                   statusBounds, verticalSlider, luxSlider,
                   matchVars, lightVars, renderVars, debounceVars, imageVars>>

\* lines 926-953: the compare button is pressed
LoadCompareValues ==
    /\ listening
    /\ DataReady(apiData, selectedGrade)
    /\ UpdateCards(CompareValuesReadings(Sliders))
    /\ entered' = [entered EXCEPT !.updateRecommendationCards = @ \cup {apiData}]
    /\ UNCHANGED <<cookies, selectedGrade, selectedEnvironment, location, listening,
                   loadApiDataAt, apiData, preloader, hideTimeout, validationTimeout,
                   gradeData, validationValues, parameterData, statusElements,
                   statusBounds, updateTimeout, verticalSlider, luxSlider,
                   matchVars, lightVars, renderVars, debounceVars, imageVars>>

NextLoad ==
    \/ InitializeSimulator
    \/ FetchSettles
    \/ DataJsonSettles
    \/ LightingJsonSettles
    \/ HideTimeout
    \/ ValidationTimeout
    \/ LoadSliderInput
    \/ LoadUpdateTimeout
    \/ LoadCompareValues
    \/ CardImageOnload

SpecLoad == InitLoad /\ [][NextLoad]_vars

\* a fetch and the reading of a response body settle, and a started timer
\* fires
FairLoad ==
    /\ SpecLoad
    /\ WF_vars(FetchSettles)
    /\ WF_vars(DataJsonSettles)
    /\ WF_vars(LightingJsonSettles)
    /\ WF_vars(HideTimeout)

(* The start of the page: properties *)

\* C23. No evaluation runs before the reference data has finished loading:
\* however the slider inputs, the presses of the compare button and the load
\* are interleaved, updateRecommendationCards and updateParameterValidation
\* are entered only with apiData non-null and fully merged, and a rendering
\* is painted only once an original buffer has been captured.
C23_EvaluationAfterLoad ==
    /\ entered["updateRecommendationCards"] \subseteq {"merged"}
    /\ entered["updateParameterValidation"] \subseteq {"merged"}
    /\ (renderings > 0 \/ canvasData # <<>>) => Rendered

\* a cookie of the selection is missing
CookieMissing == cookies.selectedGrade = "" \/ cookies.selectedEnvironment = ""

\* C28. With the grade or the environment missing from the cookies,
\* loadSelectedData redirects to the selection page and loadApiData is never
\* started: apiData stays null, and no slider input and no press of the
\* compare button evaluates a range or updates the cards.
C28_MissingSelectionRedirects ==
    (listening /\ CookieMissing) =>
        /\ location = "index.html"
        /\ loadApiDataAt = "unstarted"
        /\ apiData = "null"
        /\ entered["updateRecommendationCards"] = {}
        /\ entered["updateParameterValidation"] = {}
        /\ ~Scored
        /\ ~Validating
        /\ ~updateTimeout
        /\ ~hideTimeout

C28_Witness ==
    /\ listening
    /\ cookies.selectedGrade = "grade"
    /\ cookies.selectedEnvironment = ""
    /\ location = "index.html"
    /\ flickerSlider = 100
    /\ apiData = "null"
    /\ ~Scored

\* loadApiData has been called
Started == loadApiDataAt # "unstarted"

\* C27. Once loadApiData has started the preloader is eventually hidden on
\* every path: when loadApiData has run to its end or into its catch block a
\* timer calling hidePreloader is pending or has fired, whether the load
\* succeeded or the fetch, the parsing or the initialisation failed, and the
\* preloader, once hidden after that, is not shown again.
C27_PreloaderHidden ==
    /\ Started ~> (preloader = "hidden")
    /\ [](loadApiDataAt = "settled" => (hideTimeout \/ preloader = "hidden"))
    /\ [][(Started /\ preloader = "hidden") => preloader' = "hidden"]_vars

C27_Witness ==
    /\ loadApiDataAt = "settled"
    /\ apiData = "partial"
    /\ preloader = "hidden"
    /\ ~hideTimeout

----------------------------------------------------------------------------
(* The debounced update of the cards: the input listener of lines          *)
(* 1184-1209 of New/simulator.js (880-903 of classroom-simulator.js) and   *)
(* its timer.  Time advances in steps of a third of the delay; a timer     *)
(* that is due fires before time advances further, and an input may still  *)
(* arrive before it fires.  The data is loaded and compareValues has run.  *)

MaxInputs == 3   \* at most MaxInputs slider inputs are followed

\* line 1208: the delay of the timer, in milliseconds
DebounceDelay == 300

Tick == DebounceDelay \div 3

DebounceFlickers == {100, 1250, 10000}

\* the pending timer left running
KeepTimeout(pending, named) == pending

\* lines 1190-1192: clearTimeout(updateTimeout) removes the timer that
\* updateTimeout names, the newest one, if it is still pending
ClearTimeout(pending, named) ==
    IF named THEN SubSeq(pending, 1, Len(pending) - 1) ELSE pending

InitDebounce ==
    /\ cookies = [selectedGrade |-> "grade", selectedEnvironment |-> "classroom"]
    /\ selectedGrade = "grade"
    /\ selectedEnvironment = "classroom"
    /\ location = "classroom.html"
    /\ listening = TRUE
    /\ loadApiDataAt = "settled"
    /\ apiData = "merged"
    /\ preloader = "hidden"
    /\ hideTimeout = FALSE
    /\ validationTimeout = FALSE
    /\ entered = [updateRecommendationCards |-> {"merged"},
                  updateParameterValidation |-> {}]
    /\ cct = 6500
    /\ cri = 80
    /\ flickerSlider = 1250
    /\ glare = 6
    /\ verticalSlider = 300
    /\ luxSlider = 500
    /\ gradeData = Grade(<<Level("highly_recommended", TRUE,
                                 [Flicker |-> Entry([min |-> 0, max |-> 8]),
                                  Lux |-> Entry([min |-> 0, max |-> 500])])>>)
    /\ currentValues = CompareValuesReadings(Sliders)
    /\ recommendationCards = updateRecommendationCards(currentValues, gradeData)
    /\ cardReasons = CardReasons(currentValues, gradeData)
    /\ validationValues = <<>>
    /\ parameterData = <<>>
    /\ statusElements = <<>>
    /\ statusBounds = <<>>
    /\ updateTimeout = FALSE
    /\ timers = <<>>
    /\ sinceInput = DebounceDelay
    /\ inputs = 0
    /\ bursts = 0
    /\ cardRuns = 0
    /\ classroomImage = <<Pixel(255, 255, 255, 255)>>
    /\ originalImageData = Null
    /\ multipliers = <<>>
    /\ brightnessMultiplier = <<>>
    /\ pixelStages = <<>>
    /\ canvasData = <<>>
    /\ canvasClassList = {}
    /\ renderings = 0
    /\ flicker = <<>>
    /\ NoMatch
    /\ NoImages

\* lines 306-310 and 1184-1209: the flicker slider is moved; the pending
\* timer is cleared and a new one is started
DebounceInput ==
    /\ inputs < MaxInputs
    /\ inputs' = inputs + 1
    /\ flickerSlider' \in DebounceFlickers \ {flickerSlider}
    /\ UNCHANGED <<cct, cri, glare, verticalSlider, luxSlider, classroomImage>>
    /\ IF originalImageData = Null
       THEN UNCHANGED <<multipliers, brightnessMultiplier, pixelStages,
                        originalImageData, canvasData, canvasClassList, renderings,
                        flicker>>
       ELSE ApplyVisualEffects(originalImageData)
    /\ UpdateValidationStatus
    /\ timers' = Append(ClearTimeout(timers, updateTimeout), DebounceDelay)
    /\ updateTimeout' = TRUE
    /\ sinceInput' = 0
    /\ bursts' = IF timers = <<>> THEN bursts + 1 ELSE bursts
    /\ UNCHANGED <<cardRuns, scoreVars, cardReasons, matchVars, loadVars, imageVars>>

\* a third of the delay passes with no timer due
TimePasses ==
    /\ \A i \in DOMAIN timers : timers[i] > 0
    /\ timers # <<>> \/ sinceInput < DebounceDelay
    /\ timers' = [i \in DOMAIN timers |-> MathMax(0, timers[i] - Tick)]
    /\ sinceInput' = MathMin(sinceInput + Tick, DebounceDelay)
    /\ UNCHANGED <<inputs, bursts, cardRuns, matchVars, scoreVars, lightVars,
                   renderVars, evalVars, loadVars, imageVars>>

\* lines 1195-1208: the oldest pending timer is due and fires
DebounceTimeout ==
    /\ timers # <<>>
    /\ timers[1] = 0
    /\ timers' = Tail(timers)
    /\ updateTimeout' = (updateTimeout /\ Len(timers) > 1)
    /\ UpdateCards(InputHandlerReadings(Sliders))
    /\ cardRuns' = cardRuns + 1
    /\ UNCHANGED <<sinceInput, inputs, bursts, gradeData, validationValues,
                   parameterData, statusElements, statusBounds, verticalSlider,
                   luxSlider, matchVars, lightVars, renderVars, loadVars, imageVars>>

NextDebounce == DebounceInput \/ TimePasses \/ DebounceTimeout

SpecDebounce == InitDebounce /\ [][NextDebounce]_vars

\* time passes, and a timer that is due fires
FairDebounce ==
    /\ SpecDebounce
    /\ WF_vars(TimePasses)
    /\ WF_vars(DebounceTimeout)

(* Debounce: properties *)

\* the cards show the evaluation of the readings the sliders have
CardsOfSliders ==
    /\ currentValues = InputHandlerReadings(Sliders)
    /\ recommendationCards = updateRecommendationCards(currentValues, gradeData)

\* C24. At most one update timer is pending, the one updateTimeout names;
\* an input cancels the pending timer and starts a new one of 300 ms; a
\* timer runs updateRecommendationCards only when 300 ms have passed without
\* an input, on the readings the sliders have at that moment, once for each
\* burst of inputs; and when the inputs have stopped the cards come to show
\* the last readings.
C24_Debounce ==
    /\ [](Len(timers) <= 1 /\ (updateTimeout <=> timers # <<>>))
    /\ [][inputs' # inputs => timers' = <<DebounceDelay>>]_vars
    /\ [][cardRuns' # cardRuns =>
              /\ sinceInput = DebounceDelay
              /\ CardsOfSliders'
              /\ timers' = <<>>]_vars
    /\ [](cardRuns = IF timers = <<>> THEN bursts ELSE bursts - 1)
    /\ <>[](timers = <<>> /\ CardsOfSliders)

C24_Witness ==
    /\ inputs = MaxInputs
    /\ bursts = 2
    /\ cardRuns = 2
    /\ timers = <<>>
    /\ flickerSlider = 100
    /\ currentValues["Flicker"] = 100

----------------------------------------------------------------------------
(* The image loads that a card update starts, New/simulator.js lines       *)
(* 511-564 and 1052: updateRecommendationCards calls initializeCanvas once *)
(* for every card, each call stores a new Image in the global              *)
(* classroomImage and sets its src, and the onload handler of every one of *)
(* these images reads the global classroomImage, which by then is the      *)
(* image created last.  An image loads at any moment after its request,    *)
(* its load event is dispatched at any moment after that, and a load does  *)
(* not fail.  classroomImage holds the pixels of the global image when it  *)
(* has loaded, and no pixels before.                                       *)

MaxImages == 4   \* at most MaxImages images are requested

\* the emotion images happyPerson (state 0) and sadPerson (state 1)
EmotionImage(currentImageState) ==
    IF currentImageState = 0 THEN <<Pixel(255, 255, 255, 255)>>
    ELSE <<Pixel(0, 0, 0, 255)>>

\* what getImageData returns of a canvas nothing was drawn on
TransparentBlack == <<Pixel(0, 0, 0, 0)>>

ImageFlickers == {1250, 10000}

\* one, two or three levels have the selected environment; the flicker
\* ranges differ, so that the cards of one update can differ in their image
ImageLevels ==
    <<Level(LevelNames[1], TRUE, [Flicker |-> Entry([min |-> 0, max |-> 8])]),
      Level(LevelNames[2], TRUE, [Flicker |-> Entry([min |-> 0, max |-> 1])]),
      Level(LevelNames[3], TRUE, [Flicker |-> Entry([min |-> 0, max |-> 8])])>>

ImageGrades == {Grade(SubSeq(ImageLevels, 1, n)) : n \in 1..Len(ImageLevels)}

InitImages ==
    /\ cookies = [selectedGrade |-> "grade", selectedEnvironment |-> "classroom"]
    /\ selectedGrade = "grade"
    /\ selectedEnvironment = "classroom"
    /\ location = "classroom.html"
    /\ listening = TRUE
    /\ loadApiDataAt = "settled"
    /\ apiData = "merged"
    /\ preloader = "hidden"
    /\ hideTimeout = FALSE
    /\ validationTimeout = FALSE
    /\ entered = [updateRecommendationCards |-> {},
                  updateParameterValidation |-> {}]
    /\ cct = 6500
    /\ cri = 80
    /\ flickerSlider \in ImageFlickers
    /\ glare = 6
    /\ verticalSlider = 300
    /\ luxSlider = 500
    /\ gradeData \in ImageGrades
    /\ currentValues = <<>>
    /\ recommendationCards = NoCards
    /\ cardReasons = <<>>
    /\ validationValues = <<>>
    /\ parameterData = <<>>
    /\ statusElements = <<>>
    /\ statusBounds = <<>>
    /\ updateTimeout = FALSE
    /\ images = <<>>
    /\ canvasSize = 0
    /\ onloads = <<>>
    /\ classroomImage = <<>>
    /\ originalImageData = Null
    /\ multipliers = <<>>
    /\ brightnessMultiplier = <<>>
    /\ pixelStages = <<>>
    /\ canvasData = <<>>
    /\ canvasClassList = {}
    /\ renderings = 0
    /\ flicker = <<>>
    /\ NoMatch
    /\ NoDebounce

\* lines 926-953 with 1052 and 532-563: compareValues updates the cards,
\* and every card requests its image
ImagesCompareValues ==
    /\ UpdateCards(CompareValuesReadings(Sliders))
    /\ LET cards == recommendationCards'.cards
       IN  /\ Len(images) + Len(cards) <= MaxImages
           /\ images' = images \o [i \in 1..Len(cards) |->
                                     [state |-> cards[i].currentImageState,
                                      at |-> "loading"]]
    /\ classroomImage' = <<>>
    /\ entered' = [entered EXCEPT !.updateRecommendationCards = @ \cup {apiData}]
    /\ UNCHANGED <<gradeData, validationValues, parameterData, statusElements,
                   statusBounds, updateTimeout, verticalSlider, luxSlider,
                   cct, multipliers, cri, glare, flickerSlider, originalImageData,
                   brightnessMultiplier, pixelStages, canvasData, canvasClassList,
                   renderings, flicker, canvasSize, onloads,
                   cookies, selectedGrade, selectedEnvironment, location, listening,
                   loadApiDataAt, apiData, preloader, hideTimeout, validationTimeout,
                   matchVars, debounceVars>>

\* the image requested i-th has arrived
ImageLoads ==
    \E i \in DOMAIN images :
        /\ images[i].at = "loading"
        /\ images' = [images EXCEPT ![i].at = "loaded"]
        /\ classroomImage' = IF i = Len(images) THEN EmotionImage(images[i].state)
                             ELSE classroomImage
        /\ UNCHANGED <<canvasSize, onloads, matchVars, scoreVars, lightVars, cri,
                       glare, flickerSlider, originalImageData, brightnessMultiplier,
                       pixelStages, canvasData, canvasClassList, renderings, flicker,
                       evalVars, loadVars, debounceVars>>

\* lines 533-548: the load event of the image requested i-th; the handler
\* sizes the canvas after the global classroomImage, draws it and captures
\* the canvas.  When that image has not loaded, either its size is not
\* known, the canvas gets no pixels and getImageData throws, or its size is
\* known, nothing is drawn and an empty picture is captured.
ImageOnload ==
    \E i \in DOMAIN images :
        /\ images[i].at = "loaded"
        /\ images' = [images EXCEPT ![i].at = "fired"]
        /\ UNCHANGED <<cct, cri, glare, flickerSlider, classroomImage>>
        /\ \/ /\ classroomImage # <<>>
              /\ canvasSize' = Len(classroomImage)
              /\ ApplyVisualEffects([ref |-> "original", data |-> classroomImage])
              /\ onloads' = Append(onloads, [image |-> i, outcome |-> "captured"])
           \/ /\ classroomImage = <<>>
              /\ canvasSize' = 0
              /\ canvasData' = <<>>
              /\ onloads' = Append(onloads, [image |-> i, outcome |-> "threw"])
              /\ UNCHANGED <<multipliers, brightnessMultiplier, pixelStages,
                             originalImageData, canvasClassList, renderings, flicker>>
           \/ /\ classroomImage = <<>>
              /\ canvasSize' = Len(TransparentBlack)
              /\ ApplyVisualEffects([ref |-> "original", data |-> TransparentBlack])
              /\ onloads' = Append(onloads, [image |-> i, outcome |-> "empty"])
        /\ UNCHANGED <<matchVars, scoreVars, evalVars, loadVars, debounceVars>>

NextImages == ImagesCompareValues \/ ImageLoads \/ ImageOnload

SpecImages == InitImages /\ [][NextImages]_vars

(* Image loads: properties *)

\* every requested image has loaded and its handler has run
AllLoadsCompleted ==
    /\ images # <<>>
    /\ \A i \in DOMAIN images : images[i].at = "fired"

\* the original buffer holds the image requested last
LastImageCaptured ==
    AllLoadsCompleted =>
        /\ originalImageData # Null
        /\ originalImageData.data = EmotionImage(images[Len(images)].state)
        /\ canvasSize = Len(EmotionImage(images[Len(images)].state))

\* C26. Every onload handler sizes the canvas after an image that has
\* loaded and captures that image, never an image still loading; and once
\* every load has completed the original buffer holds the image requested
\* last.
C26_OnloadCapturesLoaded ==
    /\ \A k \in DOMAIN onloads : onloads[k].outcome = "captured"
    /\ LastImageCaptured

====
